---- MODULE Spec2Model ----
(***************************************************************************)
(* A model of the vdomgmnt package: the process lock (CommandLock.py), the *)
(* configuration store (Configuration.py) with the attribute conversions   *)
(* of the services it persists (VdoService.py, AlbireoService.py,          *)
(* SizeString.py, LogicalVolume.py), and the command runner (Command.py).  *)
(*                                                                         *)
(* Operating-system processes are the elements of Procs.  Each process     *)
(* owns one CommandLock object, one Configuration object and one Command   *)
(* object; the lock file, the configuration file and its .bak copy are     *)
(* shared by all processes.                                                *)
(***************************************************************************)
EXTENDS Integers, Sequences, FiniteSets, TLC

\* ------------------------------------------------------------------------
\* Bounds of the model
\* ------------------------------------------------------------------------
MaxFds == 2
MaxRuns == 4
MaxRetries == 3
MaxFailures == 2

Procs == {1, 2}
Fds == 0 .. (MaxFds - 1)

VARIABLES
  lockFile,   \* TRUE iff the lock file exists in the file system
  ofd,        \* per process, per descriptor: "closed", "open" (no flock held), "sh", "ex"
  cmdLock,    \* per process: the CommandLock object [fd, locked, readonly]
  pc,         \* per process: position with respect to the CommandLock calls
  inWith,     \* per process: TRUE inside the block guarded by `with CommandLock`
  count,      \* per process: iterations of the retry loop of lock() completed
  result      \* per process: how the last CommandLock call ended

lockVars == <<lockFile, ofd, cmdLock, pc, inWith, count, result>>

VARIABLES
  defaultNoRun, \* Command.defaultNoRun, the simulate mode of the process
  command,      \* the Command object
  cmdPc,        \* "idle", or "waiting" inside waitFor()
  waitCount,    \* waitFor(): iterations of its loop completed
  retries,      \* waitFor(): its argument
  waitBase,     \* _numRun when waitFor() was entered
  lastOutcome,  \* what the operating system did with the last run
  cmdResult     \* how the last call on the Command ended

cmdVars == <<defaultNoRun, command, cmdPc, waitCount, retries, waitBase,
             lastOutcome, cmdResult>>

VARIABLES
  confFile,   \* the configuration file: [exists, docs]; docs is the sequence of
              \* documents written into it (<<>>: size 0, one: well formed)
  bakFile,    \* its .bak copy
  config,     \* per process: the Configuration object
  confPc,     \* per process: "none", "init", "open", "truncated" (inside
              \* persist), "raising" (an exception leaves the block),
              \* "closed", "failed" (__enter__ raised)
  confResult, \* per process: how the last Configuration call ended
  inputs,     \* the services the caller adds: [vdo, albserver]
  startFile,  \* per process: the file when the Configuration was constructed
  seenFile,   \* per process: the file as the process last read or wrote it
  mutated     \* per process: an add or remove changed the store in this session

confVars == <<confFile, bakFile, config, confPc, confResult, inputs, startFile,
              seenFile, mutated>>

VARIABLES
  vdoWorld,  \* the system a Target service acts on: its logical volume and
             \* the volume's size, the device-mapper target, a filesystem
             \* mounted on the device, the kernel module
  albWorld,  \* the system an Index service acts on: its logical volume, the
             \* index directory, its mount, the index, the server process
  vdo,       \* the VdoService object (with the _physicalSize of its
             \* LogicalVolume)
  alb,       \* the AlbireoService object
  issued,    \* the commands the last operation called, in order
  ret        \* the last operation and how it ended

svcVars == <<vdoWorld, albWorld, vdo, alb, issued, ret>>

VARIABLES
  volumePath,  \* the fullpath a LogicalVolume is constructed from, a sequence
               \* of characters
  volume       \* what the construction gave: the LogicalVolume, or what it
               \* raised

lvVars == <<volumePath, volume>>

notLockVars == <<cmdVars, confVars, svcVars, lvVars>>
notCmdVars == <<lockVars, confVars, svcVars, lvVars>>
notConfVars == <<lockVars, cmdVars, svcVars, lvVars>>
notSvcVars == <<lockVars, confVars, cmdVars, lvVars>>
notLvVars == <<lockVars, confVars, cmdVars, svcVars>>

\* ------------------------------------------------------------------------
\* CommandLock.py
\* ------------------------------------------------------------------------
lockRetries == 20

NoFd == -1

CommandLockInit(ro) == [fd |-> NoFd, locked |-> FALSE, readonly |-> ro]

\* The lock the object asks flock() for.
LockModeAlwaysShared(readonly) == "sh"
LockMode(readonly) == IF readonly THEN "sh" ELSE "ex"

\* flock(2) with LOCK_NB on descriptor f of process p: the request conflicts
\* with a lock held through any other open file description of the file,
\* in any process, this one included.
FlockConflict(p, f, mode) ==
  \E q \in Procs, g \in Fds :
     /\ <<q, g>> # <<p, f>>
     /\ \/ ofd[q][g] = "ex"
        \/ mode = "ex" /\ ofd[q][g] = "sh"

FreeFds(p) == {f \in Fds : ofd[p][f] = "closed"}
LowestFree(p) == CHOOSE f \in FreeFds(p) : \A g \in FreeFds(p) : f <= g

\* The retry loop: `for unused_count in range(self._lockRetries)`.
LoopExhaustedLate(c) == c >= lockRetries + 1
LoopExhausted(c) == c >= lockRetries

\* _openLockFile(): os.open(O_CREAT) takes the lowest free descriptor and
\* creates the file; an OSError (no descriptor left, or any other failure
\* of open) is raised as CommandError and leaves _fd as it was.
OpenLockFile(p, via) ==
  \/ /\ FreeFds(p) # {}
     /\ ofd' = [ofd EXCEPT ![p][LowestFree(p)] = "open"]
     /\ cmdLock' = [cmdLock EXCEPT ![p].fd = LowestFree(p)]
     /\ lockFile' = TRUE
     /\ pc' = [pc EXCEPT ![p] = via]
     /\ count' = [count EXCEPT ![p] = 0]
     /\ result' = [result EXCEPT ![p] = "none"]
     /\ UNCHANGED inWith
  \/ /\ result' = [result EXCEPT ![p] = "CommandError"]
     /\ UNCHANGED <<lockFile, ofd, cmdLock, pc, inWith, count>>

\* lock() called directly.
Lock(p) ==
  /\ UNCHANGED notLockVars
  /\ pc[p] = "idle"
  /\ OpenLockFile(p, "locking")

\* One iteration of the loop of lock(): a non-blocking flock() that succeeds,
\* finds the lock held (EACCES/EAGAIN: sleep and retry) or fails otherwise.
LockAttempt(p) ==
  /\ UNCHANGED notLockVars
  /\ pc[p] \in {"locking", "entering"}
  /\ ~LoopExhausted(count[p])
  /\ LET f == cmdLock[p].fd
         mode == LockMode(cmdLock[p].readonly)
     IN  \/ /\ ~FlockConflict(p, f, mode)
            /\ ofd' = [ofd EXCEPT ![p][f] = mode]
            /\ cmdLock' = [cmdLock EXCEPT ![p].locked = TRUE]
            /\ inWith' = [inWith EXCEPT ![p] = (pc[p] = "entering") \/ inWith[p]]
            /\ pc' = [pc EXCEPT ![p] = "idle"]
            /\ result' = [result EXCEPT ![p] = "ok"]
            /\ count' = [count EXCEPT ![p] = 0]
            /\ UNCHANGED lockFile
         \/ /\ FlockConflict(p, f, mode)
            /\ count' = [count EXCEPT ![p] = count[p] + 1]
            /\ UNCHANGED <<lockFile, ofd, cmdLock, pc, inWith, result>>
         \/ /\ pc' = [pc EXCEPT ![p] = "idle"]
            /\ result' = [result EXCEPT ![p] = "CommandError"]
            /\ count' = [count EXCEPT ![p] = 0]
            /\ UNCHANGED <<lockFile, ofd, cmdLock, inWith>>

\* The loop ran out: raise CommandLockTimeout.
LockTimeout(p) ==
  /\ UNCHANGED notLockVars
  /\ pc[p] \in {"locking", "entering"}
  /\ LoopExhausted(count[p])
  /\ pc' = [pc EXCEPT ![p] = "idle"]
  /\ result' = [result EXCEPT ![p] = "CommandLockTimeout"]
  /\ count' = [count EXCEPT ![p] = 0]
  /\ UNCHANGED <<lockFile, ofd, cmdLock, inWith>>

\* unlock(): only if _locked, flock(LOCK_UN), close, _fd = -1, _locked = False.
UnlockBody(p) ==
  IF cmdLock[p].locked
    THEN /\ ofd' = [ofd EXCEPT ![p][cmdLock[p].fd] = "closed"]
         /\ cmdLock' = [cmdLock EXCEPT ![p].fd = NoFd, ![p].locked = FALSE]
    ELSE UNCHANGED <<ofd, cmdLock>>

Unlock(p) ==
  /\ UNCHANGED notLockVars
  /\ pc[p] = "idle"
  /\ UnlockBody(p)
  /\ result' = [result EXCEPT ![p] = "unlocked"]
  /\ UNCHANGED <<lockFile, pc, inWith, count>>

\* __enter__(): lock() unless already locked.
Enter(p) ==
  /\ UNCHANGED notLockVars
  /\ pc[p] = "idle"
  /\ ~inWith[p]
  /\ IF cmdLock[p].locked
       THEN /\ inWith' = [inWith EXCEPT ![p] = TRUE]
            /\ result' = [result EXCEPT ![p] = "ok"]
            /\ UNCHANGED <<lockFile, ofd, cmdLock, pc, count>>
       ELSE OpenLockFile(p, "entering")

\* __exit__(): the guarded block ended, normally or by raising.
Exit(p, raised) ==
  /\ UNCHANGED notLockVars
  /\ pc[p] = "idle"
  /\ inWith[p]
  /\ UnlockBody(p)
  /\ inWith' = [inWith EXCEPT ![p] = FALSE]
  /\ result' = [result EXCEPT ![p] = IF raised THEN "raised" ELSE "unlocked"]
  /\ UNCHANGED <<lockFile, pc, count>>

\* __del__() of the object, followed by __init__() of the next one.
DelAndNew(p, ro) ==
  /\ UNCHANGED notLockVars
  /\ pc[p] = "idle"
  /\ ~inWith[p]
  /\ IF cmdLock[p].locked
       THEN ofd' = [ofd EXCEPT ![p][cmdLock[p].fd] = "closed"]
       ELSE UNCHANGED ofd
  /\ cmdLock' = [cmdLock EXCEPT ![p] = CommandLockInit(ro)]
  /\ result' = [result EXCEPT ![p] = "none"]
  /\ count' = [count EXCEPT ![p] = 0]
  /\ UNCHANGED <<lockFile, pc, inWith>>

\* The process ends: the kernel closes every descriptor it had open, and
\* the objects of the process are gone; the next process of the slot starts
\* with a new CommandLock and no Configuration.
ProcessExit(p, ro) ==
  /\ UNCHANGED <<cmdVars, svcVars, lvVars>>
  /\ config' = [config EXCEPT ![p] = [vdos |-> <<>>, albservers |-> <<>>,
                   readonly |-> TRUE, fh |-> FALSE, dirty |-> FALSE,
                   mustExist |-> FALSE, deleteEmpty |-> FALSE,
                   schemaVersion |-> "1.0"]]
  /\ confPc' = [confPc EXCEPT ![p] = "none"]
  /\ confResult' = [confResult EXCEPT ![p] = "none"]
  /\ startFile' = [startFile EXCEPT ![p] = [exists |-> FALSE, docs |-> <<>>]]
  /\ seenFile' = [seenFile EXCEPT ![p] = [exists |-> FALSE, docs |-> <<>>]]
  /\ mutated' = [mutated EXCEPT ![p] = FALSE]
  /\ UNCHANGED <<confFile, bakFile, inputs>>
  /\ pc[p] = "idle"
  /\ ofd' = [ofd EXCEPT ![p] = [f \in Fds |-> "closed"]]
  /\ cmdLock' = [cmdLock EXCEPT ![p] = CommandLockInit(ro)]
  /\ inWith' = [inWith EXCEPT ![p] = FALSE]
  /\ result' = [result EXCEPT ![p] = "none"]
  /\ count' = [count EXCEPT ![p] = 0]
  /\ UNCHANGED <<lockFile, pc>>

LockInit ==
  /\ lockFile = FALSE
  /\ ofd = [p \in Procs |-> [f \in Fds |-> "closed"]]
  /\ cmdLock \in [Procs -> {CommandLockInit(ro) : ro \in BOOLEAN}]
  /\ pc = [p \in Procs |-> "idle"]
  /\ inWith = [p \in Procs |-> FALSE]
  /\ count = [p \in Procs |-> 0]
  /\ result = [p \in Procs |-> "none"]


\* ------------------------------------------------------------------------
\* Command.py
\* ------------------------------------------------------------------------
\* A value that is None or an integer: <<>> or <<n>>.
None == <<>>
Some(n) == <<n>>

\* Status texts and messages, by kind and number.
Msg(kind, n) == [kind |-> kind, n |-> n]
NoStatus == Msg("None", 0)

\* What a run can meet: no spawn (OSError with an errno), or an exit with a
\* return code (negative: killed by that signal) and a first line of
\* standard error that is empty or not.
Errnos == {2, 8, 13}
ReturnCodes == {-9, 0, 1, 255}
Outcomes ==
  [spawned : {FALSE}, errno : Errnos, rc : {0}, errLine : {TRUE}]
    \cup [spawned : {TRUE}, errno : {0}, rc : ReturnCodes, errLine : BOOLEAN]
NoOutcome == [spawned |-> FALSE, errno |-> 0, rc |-> 0, errLine |-> FALSE]

CommandInitRuns(noRun) ==
  [exitCode |-> None, exitStatus |-> NoStatus, noRun |-> FALSE,
   stdout |-> None, stderr |-> None, numRun |-> 0]
CommandInit(noRun) ==
  [exitCode |-> None, exitStatus |-> NoStatus, noRun |-> noRun,
   stdout |-> None, stderr |-> None, numRun |-> 0]

SetExitStatusUnsigned(code) ==
  IF code = 0 THEN Msg("succeeded", 0) ELSE Msg("exit status", code)
\* _setExitStatus(): the status text for an exit code.
SetExitStatus(code) ==
  IF code < 0 THEN Msg("signal", 0 - code)
  ELSE IF code = 0 THEN Msg("succeeded", 0)
  ELSE Msg("exit status", code)

\* _setFromException(): exitCode = (err >> 8) & 0xff, and a status text
\* that reports the failure.
ExitCodeFromErrno(err) == (err \div 256) % 256
SetFromException(c, err) ==
  [c EXCEPT !.stdout = Some(0), !.stderr = Some(1),
            !.exitCode = Some(ExitCodeFromErrno(err)),
            !.exitStatus = Msg("failed", err)]

\* `if self.exitCode != 0: success = False`
RunSucceedsNonNegative(code) == code >= 0
RunSucceeds(code) == code = 0

\* __call__(): the Command after the call, whether it raised CommandError,
\* and the message raised.  stdout/stderr hold 0 for an empty text and 1 for
\* a text with a non-empty first line.
Call(c, o) ==
  LET ran == [c EXCEPT !.numRun = c.numRun + 1]
  IN  IF c.noRun
        THEN [cmd |-> ran, raised |-> FALSE, msg |-> NoStatus]
      ELSE IF ~o.spawned
        THEN LET f == SetFromException(ran, o.errno)
             IN  [cmd |-> f, raised |-> TRUE, msg |-> f.exitStatus]
      ELSE LET d == [ran EXCEPT !.stdout = Some(1),
                                !.stderr = Some(IF o.errLine THEN 1 ELSE 0),
                                !.exitCode = Some(o.rc),
                                !.exitStatus = SetExitStatus(o.rc)]
           IN  IF RunSucceeds(o.rc)
                 THEN [cmd |-> d, raised |-> FALSE, msg |-> NoStatus]
                 ELSE [cmd |-> d, raised |-> TRUE,
                       msg |-> IF o.errLine THEN Msg("stderr", 0)
                                            ELSE d.exitStatus]

Ended(op, raised, msg) == [op |-> op, raised |-> raised, msg |-> msg]

\* Command(cmdList): noRun is taken from Command.defaultNoRun.
NewCommand ==
  /\ UNCHANGED notCmdVars
  /\ cmdPc = "idle"
  /\ command' = CommandInit(defaultNoRun)
  /\ cmdResult' = Ended("init", FALSE, NoStatus)
  /\ lastOutcome' = NoOutcome
  /\ UNCHANGED <<defaultNoRun, cmdPc, waitCount, retries, waitBase>>

\* setDefaults(options) with options.noRun set.
SetDefaults ==
  /\ UNCHANGED notCmdVars
  /\ cmdPc = "idle"
  /\ ~defaultNoRun
  /\ defaultNoRun' = TRUE
  /\ UNCHANGED <<command, cmdPc, waitCount, retries, waitBase, lastOutcome,
                 cmdResult>>

\* cmd()
Run(o) ==
  /\ UNCHANGED notCmdVars
  /\ cmdPc = "idle"
  /\ command.numRun < MaxRuns
  /\ LET r == Call(command, o)
     IN  /\ command' = r.cmd
         /\ cmdResult' = Ended("run", r.raised, r.msg)
  /\ lastOutcome' = IF command.noRun THEN NoOutcome ELSE o
  /\ UNCHANGED <<defaultNoRun, cmdPc, waitCount, retries, waitBase>>

\* mock(exitCode, stdout, stderr)
Mock(code, out, err) ==
  /\ UNCHANGED notCmdVars
  /\ cmdPc = "idle"
  /\ command' = [command EXCEPT !.exitCode = Some(code),
                                !.exitStatus = SetExitStatus(code),
                                !.stdout = Some(out), !.stderr = Some(err)]
  /\ cmdResult' = Ended("mock", FALSE, NoStatus)
  /\ UNCHANGED <<defaultNoRun, cmdPc, waitCount, retries, waitBase, lastOutcome>>

\* runOutput(): the standard output, or '' when the run raised.
RunOutput(o) ==
  /\ UNCHANGED notCmdVars
  /\ cmdPc = "idle"
  /\ command.numRun < MaxRuns
  /\ LET r == Call(command, o)
     IN  /\ command' = r.cmd
         /\ cmdResult' = Ended("runOutput", FALSE,
                               IF r.raised THEN Msg("text", 0)
                               ELSE IF r.cmd.stdout = None THEN Msg("None", 0)
                               ELSE Msg("text", r.cmd.stdout[1]))
  /\ lastOutcome' = IF command.noRun THEN NoOutcome ELSE o
  /\ UNCHANGED <<defaultNoRun, cmdPc, waitCount, retries, waitBase>>

\* noThrowCall(): run, swallowing CommandError.
NoThrowCall(o) ==
  /\ UNCHANGED notCmdVars
  /\ cmdPc = "idle"
  /\ command.numRun < MaxRuns
  /\ LET r == Call(command, o)
     IN  /\ command' = r.cmd
         /\ cmdResult' = Ended("noThrowCall", FALSE, NoStatus)
  /\ lastOutcome' = IF command.noRun THEN NoOutcome ELSE o
  /\ UNCHANGED <<defaultNoRun, cmdPc, waitCount, retries, waitBase>>

\* waitFor(retries): `for count in range(retries)`.
WaitBudgetPlusOne(n) == n + 1
WaitBudget(n) == n

WaitFor(n) ==
  /\ UNCHANGED notCmdVars
  /\ cmdPc = "idle"
  /\ command.numRun + n <= MaxRuns
  /\ IF command.noRun
       THEN /\ cmdResult' = Ended("waitFor", FALSE, NoStatus)
            /\ UNCHANGED <<cmdPc, waitCount>>
       ELSE /\ cmdPc' = "waiting"
            /\ waitCount' = 0
            /\ cmdResult' = Ended("waitFor-running", FALSE, NoStatus)
  /\ retries' = n
  /\ waitBase' = command.numRun
  /\ UNCHANGED <<defaultNoRun, command, lastOutcome>>

\* One iteration: run; return if it succeeded, else sleep one second.
WaitForAttempt(o) ==
  /\ UNCHANGED notCmdVars
  /\ cmdPc = "waiting"
  /\ waitCount < WaitBudget(retries)
  /\ LET r == Call(command, o)
     IN  /\ command' = r.cmd
         /\ IF r.raised
              THEN /\ waitCount' = waitCount + 1
                   /\ UNCHANGED <<cmdPc, cmdResult>>
              ELSE /\ cmdPc' = "idle"
                   /\ waitCount' = 0
                   /\ cmdResult' = Ended("waitFor", FALSE, NoStatus)
  /\ lastOutcome' = o
  /\ UNCHANGED <<defaultNoRun, retries, waitBase>>

\* The loop ended without a successful run: raise the timed-out error.
WaitForTimeout ==
  /\ UNCHANGED notCmdVars
  /\ cmdPc = "waiting"
  /\ waitCount >= WaitBudget(retries)
  /\ cmdPc' = "idle"
  /\ waitCount' = 0
  /\ cmdResult' = Ended("waitFor", TRUE, Msg("timed out", retries))
  /\ UNCHANGED <<defaultNoRun, command, retries, waitBase, lastOutcome>>

CmdInit ==
  /\ defaultNoRun \in BOOLEAN
  /\ command = CommandInit(defaultNoRun)
  /\ cmdPc = "idle"
  /\ waitCount = 0
  /\ retries = 0
  /\ waitBase = 0
  /\ lastOutcome = NoOutcome
  /\ cmdResult = Ended("init", FALSE, NoStatus)

CmdQuiet == CmdInit /\ ~defaultNoRun

CmdNext ==
  \/ NewCommand
  \/ SetDefaults
  \/ \E o \in Outcomes : Run(o)
  \/ \E code \in ReturnCodes, out \in {0, 1}, err \in {0, 1} : Mock(code, out, err)
  \/ \E o \in Outcomes : RunOutput(o)
  \/ \E o \in Outcomes : NoThrowCall(o)
  \/ \E n \in 0 .. MaxRetries : WaitFor(n)
  \/ \E o \in Outcomes : WaitForAttempt(o)
  \/ WaitForTimeout

\* ------------------------------------------------------------------------
\* Attribute values and their conversions
\* (VdoService.py, AlbireoService.py, SizeString.py, LogicalVolume.py)
\* ------------------------------------------------------------------------
\* Texts are sequences of one-character strings.  An attribute value carries
\* its Python type: an int, a bool, a SizeString (its _bytes), a
\* LogicalVolume (its _fullpath), a str, or None.
IntV(i) == [t |-> "int", n |-> i, s |-> <<>>]
BoolV(b) == [t |-> "bool", n |-> IF b THEN 1 ELSE 0, s |-> <<>>]
SizeV(bytes) == [t |-> "size", n |-> bytes, s |-> <<>>]
LvV(path) == [t |-> "lv", n |-> 0, s |-> path]
StrV(text) == [t |-> "str", n |-> 0, s |-> text]
NoneV == [t |-> "none", n |-> 0, s |-> <<>>]

DigitChars == <<"0", "1", "2", "3", "4", "5", "6", "7", "8", "9">>
IsDigit(c) == \E d \in 1 .. 10 : DigitChars[d] = c
DigitValue(c) == (CHOOSE d \in 1 .. 10 : DigitChars[d] = c) - 1

\* str(int)
RECURSIVE NatToStr(_)
NatToStr(i) ==
  IF i < 10 THEN <<DigitChars[i + 1]>>
  ELSE NatToStr(i \div 10) \o <<DigitChars[(i % 10) + 1]>>
IntToStr(i) == IF i < 0 THEN <<"-">> \o NatToStr(0 - i) ELSE NatToStr(i)

\* The number written by a text of digits; ok is FALSE where Python raises
\* ValueError.
RECURSIVE DigitsValue(_)
DigitsValue(text) ==
  IF text = <<>> THEN 0
  ELSE 10 * DigitsValue(SubSeq(text, 1, Len(text) - 1))
         + DigitValue(text[Len(text)])
AllDigits(text) == Len(text) > 0 /\ \A k \in 1 .. Len(text) : IsDigit(text[k])
Parsed(ok, n) == [ok |-> ok, n |-> n]

\* int(value)
ParseInt(text) ==
  IF AllDigits(text) THEN Parsed(TRUE, DigitsValue(text))
  ELSE IF Len(text) > 1 /\ text[1] = "-" /\ AllDigits(Tail(text))
    THEN Parsed(TRUE, 0 - DigitsValue(Tail(text)))
  ELSE IF Len(text) > 1 /\ text[1] = "+" /\ AllDigits(Tail(text))
    THEN Parsed(TRUE, DigitsValue(Tail(text)))
  ELSE Parsed(FALSE, 0)

\* str(bool), and `value[0].upper() == 'T'` (IndexError on an empty text).
StrOfBool(b) == IF b THEN <<"T", "r", "u", "e">> ELSE <<"F", "a", "l", "s", "e">>
ParseBool(text) ==
  IF text = <<>> THEN Parsed(FALSE, 0)
  ELSE Parsed(TRUE, IF text[1] \in {"T", "t"} THEN 1 ELSE 0)

\* SizeString._multipliers.  The multipliers of t, p and e are beyond the
\* integers of the model: every size of the model is below the terabyte.
Multiplier(c) ==
  CASE c = "b" -> 1
    [] c = "s" -> 512
    [] c = "k" -> 1024
    [] c = "m" -> 1048576
    [] c = "g" -> 1073741824
BigClicks == {"e", "p", "t"}
Suffixes == {"b", "s", "k", "m", "g"} \cup BigClicks
Lower(c) ==
  CASE c = "B" -> "b" [] c = "S" -> "s" [] c = "K" -> "k" [] c = "M" -> "m"
    [] c = "G" -> "g" [] c = "T" -> "t" [] c = "P" -> "p" [] c = "E" -> "e"
    [] OTHER -> c
Upper(c) ==
  CASE c = "b" -> "B" [] c = "s" -> "S" [] c = "k" -> "K" [] c = "m" -> "M"
    [] c = "g" -> "G" [] c = "t" -> "T" [] c = "p" -> "P" [] c = "e" -> "E"
    [] OTHER -> c

\* SizeString(sz): the byte count, with the default unit of megabytes.
\* _atof is applied to texts of digits only (a text written by __str__ has
\* no decimal point).
SizeStringParse(sz) ==
  IF sz = <<>> THEN Parsed(TRUE, 0)
  ELSE LET suffix == Lower(sz[Len(sz)])
           body == IF suffix \in Suffixes THEN SubSeq(sz, 1, Len(sz) - 1) ELSE sz
           unit == IF suffix \in Suffixes THEN suffix ELSE "m"
       IN  IF AllDigits(body)
             THEN Parsed(TRUE, DigitsValue(body) * Multiplier(unit))
             ELSE Parsed(FALSE, 0)

\* SizeString.asInteger() (__str__): the largest unit that divides the byte
\* count, else bytes.
Divides(click, bytes) ==
  IF click \in BigClicks THEN FALSE ELSE bytes % Multiplier(click) = 0
Clicks == <<"e", "p", "t", "g", "m", "k">>
RECURSIVE AsIntegerFrom(_, _)
AsIntegerFrom(k, bytes) ==
  IF k > Len(Clicks) THEN NatToStr(bytes) \o <<"B">>
  ELSE IF Divides(Clicks[k], bytes)
    THEN NatToStr(bytes \div Multiplier(Clicks[k])) \o <<Upper(Clicks[k])>>
  ELSE AsIntegerFrom(k + 1, bytes)
AsInteger(bytes) == IF bytes = 0 THEN <<"0">> ELSE AsIntegerFrom(1, bytes)

\* LogicalVolume(fullpath): exactly three separators and the prefix /dev/.
CountSep(text) == Cardinality({k \in 1 .. Len(text) : text[k] = "/"})
DevPrefix == <<"/", "d", "e", "v", "/">>
LogicalVolumeValid(path) ==
  ~(CountSep(path) # 3 \/ SubSeq(path, 1, IF Len(path) < 5 THEN Len(path) ELSE 5) # DevPrefix)

\* str(value), by the type of the value.
PyStr(v) ==
  CASE v.t = "int" -> IntToStr(v.n)
    [] v.t = "bool" -> StrOfBool(v.n = 1)
    [] v.t = "size" -> AsInteger(v.n)
    [] v.t = "lv" -> v.s
    [] v.t = "str" -> v.s
    [] v.t = "none" -> <<"N", "o", "n", "e">>

\* getKeys() of the two services.
VdoKeys ==
  <<"blockMapCacheSize", "blockMapPageSize", "enableCompression",
    "enableDeduplication", "enabled", "logicalBlockSize", "logicalSize",
    "logicalVolumePath", "mdRaid5Mode", "physicalBlockSize", "physicalSize",
    "readCacheSize", "recoveryScanRate", "recoverySweepRate", "reserveSize",
    "server", "writePolicy">>
AlbKeys ==
  <<"cfreq", "enabled", "indexPath", "logicalVolumePath", "memory",
    "networkSpec", "size", "sparse", "udsParallelFactor">>
GetKeys(kind) == IF kind = "vdo" THEN VdoKeys ELSE AlbKeys
KeySet(kind) == {GetKeys(kind)[k] : k \in 1 .. Len(GetKeys(kind))}

\* The names __setattr__ converts, by service.
IntKeys(kind) ==
  IF kind = "vdo"
    THEN {"blockMapPageSize", "logicalBlockSize", "physicalBlockSize",
          "recoveryScanRate", "recoverySweepRate"}
    ELSE {"cfreq", "udsParallelFactor"}
BoolKeys(kind) ==
  IF kind = "vdo"
    THEN {"enableCompression", "enableDeduplication", "enabled"}
    ELSE {"enabled", "sparse"}
SizeKeys(kind) ==
  IF kind = "vdo"
    THEN {"blockMapCacheSize", "logicalSize", "physicalSize", "readCacheSize",
          "reserveSize"}
    ELSE {"size"}

\* The attribute a key is stored under: logicalVolumePath is the fullpath()
\* of the logicalVolume attribute (__getattr__).
Slot(key) == IF key = "logicalVolumePath" THEN "logicalVolume" ELSE key
GetAttr(svc, key) == svc[Slot(key)]

\* __setattr__(name, value) with a str value: ok is FALSE where the
\* conversion raises (ValueError, IndexError, ArgumentError).
Converted(ok, v) == [ok |-> ok, v |-> v]
Convert(kind, key, text) ==
  IF key \in IntKeys(kind)
    THEN LET r == ParseInt(text) IN Converted(r.ok, IntV(r.n))
  ELSE IF key \in BoolKeys(kind)
    THEN LET r == ParseBool(text) IN Converted(r.ok, BoolV(r.n = 1))
  ELSE IF key \in SizeKeys(kind)
    THEN LET r == SizeStringParse(text) IN Converted(r.ok, SizeV(r.n))
  ELSE IF key = "logicalVolumePath"
    THEN Converted(LogicalVolumeValid(text), LvV(text))
  ELSE Converted(TRUE, StrV(text))

\* VdoService(name) and AlbireoService(name) with no keyword: the defaults.
VdoDefault ==
  [blockMapCacheSize |-> SizeV(134217728),
   blockMapPageSize |-> IntV(32768),
   enableCompression |-> BoolV(FALSE),
   enableDeduplication |-> BoolV(TRUE),
   enabled |-> BoolV(TRUE),
   logicalBlockSize |-> IntV(4096),
   logicalSize |-> SizeV(0),
   logicalVolume |-> NoneV,
   mdRaid5Mode |-> StrV(<<"o", "n">>),
   physicalBlockSize |-> IntV(4096),
   physicalSize |-> SizeV(0),
   readCacheSize |-> SizeV(0),
   recoveryScanRate |-> IntV(640),
   recoverySweepRate |-> IntV(40),
   reserveSize |-> SizeV(0),
   server |-> StrV(<<>>),
   writePolicy |-> StrV(<<"r", "e", "a", "d", "_", "f", "r", "o", "m", "_", "s", "u", "p", "e", "r", "b", "l", "o", "c", "k">>)]
AlbDefault ==
  [cfreq |-> IntV(0),
   enabled |-> BoolV(TRUE),
   indexPath |-> StrV(<<>>),
   logicalVolume |-> NoneV,
   memory |-> IntV(0),
   networkSpec |-> StrV(<<>>),
   size |-> SizeV(0),
   sparse |-> BoolV(FALSE),
   udsParallelFactor |-> IntV(0)]
ServiceDefault(kind) == IF kind = "vdo" THEN VdoDefault ELSE AlbDefault

\* ------------------------------------------------------------------------
\* Configuration.py
\* ------------------------------------------------------------------------
supportedSchemaVersions == {"1.0"}

VdoNames == {"vdo1"}
AlbNames == {"alb1"}

NoFile == [exists |-> FALSE, docs |-> <<>>]
File(docs) == [exists |-> TRUE, docs |-> docs]
FileDocs(f) == IF f.exists THEN f.docs ELSE <<>>

\* Configuration(filename, readonly, mustExist, deleteEmpty)
ConfigurationInit(ro, mustExist, deleteEmpty) ==
  [vdos |-> <<>>, albservers |-> <<>>, readonly |-> ro, fh |-> FALSE,
   dirty |-> FALSE, mustExist |-> mustExist, deleteEmpty |-> deleteEmpty,
   schemaVersion |-> "1.0"]

\* empty()
Empty(c) == DOMAIN c.vdos = {} /\ DOMAIN c.albservers = {}

\* persist(): the lines written for one service, `str(getattr(svc, key))` for
\* every key of getKeys(), and the document written for the store.
Serialize(kind, svc) == [k \in KeySet(kind) |-> PyStr(GetAttr(svc, k))]
PersistDoc(c) ==
  [version |-> c.schemaVersion,
   vdo |-> [n \in DOMAIN c.vdos |-> Serialize("vdo", c.vdos[n])],
   albserver |-> [n \in DOMAIN c.albservers |->
                     Serialize("albserver", c.albservers[n])]]

\* persist() writes the texts as they are, with no escaping: expat reads a
\* text back only if it holds neither < nor &.
XmlReadable(text) == \A k \in 1 .. Len(text) : text[k] \notin {"<", "&"}

\* _read_startElement/_read_endElement for one section: a service built with
\* the defaults, then setattr() for every element of the section, in the
\* order of the file, up to the first element that expat cannot read or
\* that setattr() refuses.
ElementOk(kind, attrs, k) ==
  XmlReadable(attrs[k]) /\ Convert(kind, k, attrs[k]).ok
FirstBad(kind, attrs) ==
  LET bad == {i \in 1 .. Len(GetKeys(kind)) :
                ~ElementOk(kind, attrs, GetKeys(kind)[i])}
  IN  IF bad = {} THEN Len(GetKeys(kind)) + 1
      ELSE CHOOSE i \in bad : \A j \in bad : i <= j
LoadedOk(kind, attrs) == FirstBad(kind, attrs) > Len(GetKeys(kind))
LoadError(kind, attrs) ==
  IF XmlReadable(attrs[GetKeys(kind)[FirstBad(kind, attrs)]])
    THEN "ValueError" ELSE "ExpatError"
LoadService(kind, attrs) ==
  [a \in DOMAIN ServiceDefault(kind) |->
     IF \E i \in 1 .. (FirstBad(kind, attrs) - 1) : Slot(GetKeys(kind)[i]) = a
       THEN LET i == CHOOSE i \in 1 .. Len(GetKeys(kind)) : Slot(GetKeys(kind)[i]) = a
            IN  Convert(kind, GetKeys(kind)[i], attrs[GetKeys(kind)[i]]).v
       ELSE ServiceDefault(kind)[a]]

\* The documents the model starts with or is given from outside.
EmptyDoc(version) == [version |-> version, vdo |-> <<>>, albserver |-> <<>>]

\* Configuration(...): ArgumentError if mustExist and the file is missing.
ConfNew(p, ro, mustExist, deleteEmpty) ==
  /\ UNCHANGED notConfVars
  /\ confPc[p] \in {"none", "closed", "failed"}
  /\ IF mustExist /\ ~confFile.exists
       THEN /\ confResult' = [confResult EXCEPT ![p] = "ArgumentError"]
            /\ confPc' = [confPc EXCEPT ![p] = "none"]
            /\ UNCHANGED config
       ELSE /\ config' = [config EXCEPT ![p] = ConfigurationInit(ro, mustExist, deleteEmpty)]
            /\ confPc' = [confPc EXCEPT ![p] = "init"]
            /\ confResult' = [confResult EXCEPT ![p] = "ok"]
  /\ startFile' = [startFile EXCEPT ![p] = confFile]
  /\ seenFile' = [seenFile EXCEPT ![p] = confFile]
  /\ mutated' = [mutated EXCEPT ![p] = FALSE]
  /\ UNCHANGED <<confFile, bakFile, inputs>>

\* _read(): the version is stored, then validated; the vdo sections are
\* loaded, then the albserver sections, as persist() wrote them; the first
\* error ends the read; expat raises on anything after the document element.
ReadInto(c, docs) ==
  LET d == docs[1]
      c1 == [c EXCEPT !.schemaVersion = d.version]
      vdoBad == {n \in DOMAIN d.vdo : ~LoadedOk("vdo", d.vdo[n])}
      albBad == {n \in DOMAIN d.albserver : ~LoadedOk("albserver", d.albserver[n])}
      c2 == [c1 EXCEPT
               !.vdos = [n \in DOMAIN d.vdo |-> LoadService("vdo", d.vdo[n])]]
      c3 == [c2 EXCEPT
               !.albservers = [n \in DOMAIN d.albserver |->
                                 LoadService("albserver", d.albserver[n])]]
  IN  IF d.version \notin supportedSchemaVersions
        THEN [c |-> c1, result |-> "BadConfigVersionError"]
      ELSE IF vdoBad # {}
        THEN [c |-> c2,
              result |-> LoadError("vdo", d.vdo[CHOOSE n \in vdoBad : TRUE])]
      ELSE IF albBad # {}
        THEN [c |-> c3,
              result |-> LoadError("albserver",
                                   d.albserver[CHOOSE n \in albBad : TRUE])]
      ELSE IF Len(docs) > 1 THEN [c |-> c3, result |-> "ExpatError"]
      ELSE [c |-> [c3 EXCEPT !.dirty = FALSE], result |-> "ok"]

\* __enter__(): open the file ('r', or 'a+' which creates it) and read it
\* unless its size is 0; a read-only Configuration of a missing file has no
\* open file.
ConfEnter(p) ==
  /\ UNCHANGED notConfVars
  /\ confPc[p] = "init"
  /\ LET c == config[p]
         opened == [c EXCEPT !.fh = TRUE]
     IN  IF confFile.exists
           THEN IF confFile.docs # <<>>
                  THEN LET r == ReadInto(opened, confFile.docs)
                       IN  /\ config' = [config EXCEPT ![p] = r.c]
                           /\ confResult' = [confResult EXCEPT ![p] = r.result]
                           /\ confPc' = [confPc EXCEPT ![p] =
                                           IF r.result = "ok" THEN "open" ELSE "failed"]
                           /\ UNCHANGED confFile
                  ELSE /\ config' = [config EXCEPT ![p] = opened]
                       /\ confResult' = [confResult EXCEPT ![p] = "ok"]
                       /\ confPc' = [confPc EXCEPT ![p] = "open"]
                       /\ UNCHANGED confFile
         ELSE IF ~c.readonly
           THEN /\ confFile' = File(<<>>)
                /\ config' = [config EXCEPT ![p] = opened]
                /\ confResult' = [confResult EXCEPT ![p] = "ok"]
                /\ confPc' = [confPc EXCEPT ![p] = "open"]
         ELSE /\ confResult' = [confResult EXCEPT ![p] = "ok"]
              /\ confPc' = [confPc EXCEPT ![p] = "open"]
              /\ UNCHANGED <<confFile, config>>
  /\ seenFile' = [seenFile EXCEPT ![p] = confFile']
  /\ UNCHANGED <<bakFile, inputs, startFile, mutated>>

\* _assertCanModify()
CanModify(c) == c.fh /\ ~c.readonly

Raise(p, what) ==
  /\ confResult' = [confResult EXCEPT ![p] = what]
  /\ confPc' = [confPc EXCEPT ![p] = "raising"]

Store(kind) == IF kind = "vdo" THEN "vdos" ELSE "albservers"
Input(kind) == IF kind = "vdo" THEN inputs.vdo ELSE inputs.albserver

\* The map after `self._vdos[name] = vdo`.
Put(m, name, svc) ==
  [n \in DOMAIN m \cup {name} |-> IF n = name THEN svc ELSE m[n]]
\* The map after `del self._vdos[name]`.
Del(m, name) == [n \in DOMAIN m \ {name} |-> m[n]]

\* addVdo(name, vdo, replace) / addAlbserver(name, albserver, replace)
AddRefusesPresent(replace, present) == present
AddRefuses(replace, present) == ~replace /\ present

Add(p, kind, name, replace) ==
  /\ UNCHANGED notConfVars
  /\ confPc[p] = "open"
  /\ LET c == config[p]
         m == c[Store(kind)]
     IN  IF ~CanModify(c)
           THEN Raise(p, "AssertionError") /\ UNCHANGED <<config, mutated>>
         ELSE IF AddRefuses(replace, name \in DOMAIN m)
           THEN /\ confResult' = [confResult EXCEPT ![p] = "False"]
                /\ UNCHANGED <<config, confPc, mutated>>
         ELSE /\ config' = [config EXCEPT
                              ![p][Store(kind)] = Put(m, name, Input(kind)),
                              ![p].dirty = TRUE]
              /\ mutated' = [mutated EXCEPT ![p] = TRUE]
              /\ confResult' = [confResult EXCEPT ![p] = "True"]
              /\ UNCHANGED confPc
  /\ UNCHANGED <<confFile, bakFile, inputs, startFile, seenFile>>

AddVdo(p, name, replace) == Add(p, "vdo", name, replace)
AddAlbserver(p, name, replace) == Add(p, "albserver", name, replace)

\* removeVdo(name) / removeAlbserver(name): KeyError for an unknown name.
RemoveClean(p, kind, name) ==
  /\ UNCHANGED notConfVars
  /\ confPc[p] = "open"
  /\ LET c == config[p]
         m == c[Store(kind)]
     IN  IF ~CanModify(c)
           THEN Raise(p, "AssertionError") /\ UNCHANGED <<config, mutated>>
         ELSE IF name \notin DOMAIN m
           THEN Raise(p, "KeyError") /\ UNCHANGED <<config, mutated>>
         ELSE /\ config' = [config EXCEPT ![p][Store(kind)] = Del(m, name)]
              /\ mutated' = [mutated EXCEPT ![p] = TRUE]
              /\ confResult' = [confResult EXCEPT ![p] = "ok"]
              /\ UNCHANGED confPc
  /\ UNCHANGED <<confFile, bakFile, inputs, startFile, seenFile>>
Remove(p, kind, name) ==
  /\ UNCHANGED notConfVars
  /\ confPc[p] = "open"
  /\ LET c == config[p]
         m == c[Store(kind)]
     IN  IF ~CanModify(c)
           THEN Raise(p, "AssertionError") /\ UNCHANGED <<config, mutated>>
         ELSE IF name \notin DOMAIN m
           THEN Raise(p, "KeyError") /\ UNCHANGED <<config, mutated>>
         ELSE /\ config' = [config EXCEPT
                              ![p][Store(kind)] = Del(m, name),
                              ![p].dirty = TRUE]
              /\ mutated' = [mutated EXCEPT ![p] = TRUE]
              /\ confResult' = [confResult EXCEPT ![p] = "ok"]
              /\ UNCHANGED confPc
  /\ UNCHANGED <<confFile, bakFile, inputs, startFile, seenFile>>

RemoveVdo(p, name) == Remove(p, "vdo", name)
RemoveAlbserver(p, name) == Remove(p, "albserver", name)

\* getattr(svc, 'logicalVolumePath') is logicalVolume.fullpath():
\* AttributeError for a service with no logical volume.
Persistable(c) ==
  /\ \A n \in DOMAIN c.vdos : c.vdos[n].logicalVolume # NoneV
  /\ \A n \in DOMAIN c.albservers : c.albservers[n].logicalVolume # NoneV

\* persist(), up to the truncation: nothing for a read-only or clean
\* Configuration; else `cp file file.bak` (not run in simulate mode, and its
\* failure swallowed), then seek(0) and truncate(), or the print of
\* simulate mode.
Persist(p, cpOk) ==
  /\ UNCHANGED notConfVars
  /\ confPc[p] = "open"
  /\ LET c == config[p]
     IN  IF ~c.fh
           THEN /\ Raise(p, "AssertionError")
                /\ UNCHANGED <<confFile, bakFile, config, seenFile>>
         ELSE IF c.readonly \/ ~c.dirty
           THEN /\ confResult' = [confResult EXCEPT ![p] = "ok"]
                /\ UNCHANGED <<confFile, bakFile, config, confPc, seenFile>>
         ELSE /\ bakFile' = IF confFile.exists /\ ~defaultNoRun /\ cpOk
                              THEN confFile ELSE bakFile
              /\ IF ~Persistable(c)
                   THEN /\ Raise(p, "AttributeError")
                        /\ UNCHANGED <<confFile, config, seenFile>>
                 ELSE IF defaultNoRun
                   THEN /\ config' = [config EXCEPT ![p].dirty = FALSE]
                        /\ confResult' = [confResult EXCEPT ![p] = "printed"]
                        /\ UNCHANGED <<confFile, confPc, seenFile>>
                   ELSE /\ confFile' = [confFile EXCEPT !.docs = <<>>]
                        /\ confPc' = [confPc EXCEPT ![p] = "truncated"]
                        /\ UNCHANGED <<config, confResult, seenFile>>
  /\ UNCHANGED <<inputs, startFile, mutated>>

\* persist(), from the write: the file is open in append mode, so the text
\* goes to the end of the file; then _dirty = False.
PersistWrite(p) ==
  /\ UNCHANGED notConfVars
  /\ confPc[p] = "truncated"
  /\ confFile' = [confFile EXCEPT
                    !.docs = IF confFile.exists
                               THEN Append(confFile.docs, PersistDoc(config[p]))
                               ELSE <<>>]
  /\ config' = [config EXCEPT ![p].dirty = FALSE]
  /\ confPc' = [confPc EXCEPT ![p] = "open"]
  /\ confResult' = [confResult EXCEPT ![p] = "written"]
  /\ seenFile' = [seenFile EXCEPT ![p] = confFile']
  /\ UNCHANGED <<bakFile, inputs, startFile, mutated>>

\* The guarded block raises for a reason of its own.
BlockRaises(p) ==
  /\ UNCHANGED notConfVars
  /\ confPc[p] = "open"
  /\ Raise(p, "Exception")
  /\ UNCHANGED <<confFile, bakFile, config, inputs, startFile, seenFile, mutated>>

\* __exit__(): close the file; with an exception nothing more; else
\* _removeFile() if deleteEmpty and empty() (a pretended rm in simulate
\* mode).
ConfExitDeletes(p) ==
  /\ UNCHANGED notConfVars
  /\ confPc[p] \in {"open", "raising"}
  /\ config' = [config EXCEPT ![p].fh = FALSE]
  /\ confPc' = [confPc EXCEPT ![p] = "closed"]
  /\ IF confPc[p] = "raising"
       THEN UNCHANGED confResult
       ELSE confResult' = [confResult EXCEPT ![p] = "exited"]
  /\ IF config[p].deleteEmpty /\ Empty(config[p]) /\ ~defaultNoRun
       THEN confFile' = NoFile
       ELSE UNCHANGED confFile
  /\ UNCHANGED <<bakFile, inputs, startFile, seenFile, mutated>>
ConfExit(p) ==
  /\ UNCHANGED notConfVars
  /\ confPc[p] \in {"open", "raising"}
  /\ config' = [config EXCEPT ![p].fh = FALSE]
  /\ confPc' = [confPc EXCEPT ![p] = "closed"]
  /\ IF confPc[p] = "raising"
       THEN UNCHANGED <<confFile, confResult>>
       ELSE /\ confResult' = [confResult EXCEPT ![p] = "exited"]
            /\ IF config[p].deleteEmpty /\ Empty(config[p]) /\ ~defaultNoRun
                 THEN confFile' = NoFile
                 ELSE UNCHANGED confFile
  /\ UNCHANGED <<bakFile, inputs, startFile, seenFile, mutated>>

\* A valid service: the defaults with a logical volume.
LvPaths == {<<"/", "d", "e", "v", "/", "v", "g", "/", "l", "v", "0">>, <<"/", "d", "e", "v", "/", "v", "g", "/", "l", "v", "1">>}
VdoBase == [VdoDefault EXCEPT !.logicalVolume = LvV(<<"/", "d", "e", "v", "/", "v", "g", "/", "l", "v", "0">>)]
AlbBase == [AlbDefault EXCEPT !.logicalVolume = LvV(<<"/", "d", "e", "v", "/", "v", "g", "/", "l", "v", "1">>)]
BaseInputs == [vdo |-> VdoBase, albserver |-> AlbBase]

ConfInit(files, ins) ==
  /\ confFile \in files
  /\ bakFile = NoFile
  /\ config = [p \in Procs |-> ConfigurationInit(TRUE, FALSE, FALSE)]
  /\ confPc = [p \in Procs |-> "none"]
  /\ confResult = [p \in Procs |-> "none"]
  /\ inputs \in ins
  /\ startFile = [p \in Procs |-> NoFile]
  /\ seenFile = [p \in Procs |-> NoFile]
  /\ mutated = [p \in Procs |-> FALSE]

ConfQuiet == ConfInit({NoFile}, {BaseInputs})

\* One process runs sessions on the file; it starts absent, of size 0,
\* holding an empty store, or written by a program of another schema.
ConfProc == 1
InitialFiles == {NoFile, File(<<>>), File(<<EmptyDoc("1.0")>>), File(<<EmptyDoc("2.0")>>)}

ConfNext ==
  \/ \E ro \in BOOLEAN, me \in BOOLEAN, de \in BOOLEAN : ConfNew(ConfProc, ro, me, de)
  \/ ConfEnter(ConfProc)
  \/ \E n \in VdoNames, replace \in BOOLEAN : AddVdo(ConfProc, n, replace)
  \/ \E n \in AlbNames, replace \in BOOLEAN : AddAlbserver(ConfProc, n, replace)
  \/ \E n \in VdoNames : RemoveVdo(ConfProc, n)
  \/ \E n \in AlbNames : RemoveAlbserver(ConfProc, n)
  \/ \E cpOk \in BOOLEAN : Persist(ConfProc, cpOk)
  \/ PersistWrite(ConfProc)
  \/ BlockRaises(ConfProc)
  \/ ConfExit(ConfProc)

\* The services of the round trip: a valid service with one attribute set to
\* a value of its type.
IntValues == {-1, 0, 512, 4096, 32768}
SizeValues ==
  {0, 1, 1000, 1024, 1536, 1048576, 3145728, 134217728, 1073741824, 2147483647}
TextValues == {<<>>, <<"o", "n">>, <<"/", "m", "n", "t", "/", "i", "d", "x">>, <<"/", "m", "n", "t", "/", "a", "&", "b">>, <<"a", "<", "b">>}
MemoryValues == {IntV(0), IntV(1), StrV(<<"0", ".", "2", "5">>)}
ValuesFor(kind, key) ==
  IF key \in IntKeys(kind) THEN {IntV(i) : i \in IntValues}
  ELSE IF key \in BoolKeys(kind) THEN {BoolV(b) : b \in BOOLEAN}
  ELSE IF key \in SizeKeys(kind) THEN {SizeV(b) : b \in SizeValues}
  ELSE IF key = "logicalVolumePath" THEN {LvV(path) : path \in LvPaths}
  ELSE IF key = "memory" THEN MemoryValues
  ELSE {StrV(text) : text \in TextValues}
Base(kind) == IF kind = "vdo" THEN VdoBase ELSE AlbBase
Variants(kind) ==
  UNION {{[Base(kind) EXCEPT ![Slot(k)] = v] : v \in ValuesFor(kind, k)} :
           k \in KeySet(kind)}
RoundTripInputs ==
  {[vdo |-> v, albserver |-> AlbBase] : v \in Variants("vdo")}
    \cup {[vdo |-> VdoBase, albserver |-> a] : a \in Variants("albserver")}

\* A writer adds the services to a new file and persists; the file is then
\* opened again.
RoundTripNext ==
  \/ \E ro \in BOOLEAN : ConfNew(ConfProc, ro, FALSE, FALSE)
  \/ ConfEnter(ConfProc)
  \/ \E n \in VdoNames : AddVdo(ConfProc, n, TRUE)
  \/ \E n \in AlbNames : AddAlbserver(ConfProc, n, TRUE)
  \/ Persist(ConfProc, TRUE)
  \/ PersistWrite(ConfProc)
  \/ ConfExit(ConfProc)

\* A write operation of the vdo command: take the lock exclusively
\* (`with CommandLock(...)`), open the Configuration writable, add or
\* remove, persist, leave the Configuration, leave the lock; the process
\* ends outside the lock.
Window(p) == confPc[p] \in {"init", "open", "truncated", "raising"}

TakeLock(p) == confPc[p] = "none" /\ result[p] = "none" /\ Enter(p)
OpenStore(p, de) == inWith[p] /\ confPc[p] = "none" /\ ConfNew(p, FALSE, FALSE, de)
LeaveLock(p) ==
  confPc[p] \in {"closed", "failed"} /\ Exit(p, confResult[p] # "exited")
EndProcess(p) == ~inWith[p] /\ result[p] # "none" /\ ProcessExit(p, FALSE)

WriteNext ==
  \E p \in Procs :
    \/ TakeLock(p)
    \/ LockAttempt(p)
    \/ LockTimeout(p)
    \/ \E de \in BOOLEAN : OpenStore(p, de)
    \/ ConfEnter(p)
    \/ \E n \in VdoNames, replace \in BOOLEAN : AddVdo(p, n, replace)
    \/ \E n \in VdoNames : RemoveVdo(p, n)
    \/ Persist(p, TRUE)
    \/ PersistWrite(p)
    \/ ConfExit(p)
    \/ LeaveLock(p)
    \/ EndProcess(p)

\* ------------------------------------------------------------------------
\* Service.py, LogicalVolume.py, KernelModuleService.py, VdoService.py,
\* AlbireoService.py
\* ------------------------------------------------------------------------
SUCCESS == 0
ALREADY == 1
ERROR == 2
vdoPhysicalBlockSize == 4096

\* The value v under a name in what follows: a result computed once and
\* used by the statements after it.
Let(v, F(_)) == F(v)

\* How an operation ended: the value returned (a return code, or 1/0 for
\* True/False), or the exception that left it.
\* sizes: for create and growPhysical, once the volume's size was rounded,
\* the size getSize() gave and the size _roundSize() returned.
Returned(op, val) ==
  [svc |-> "vdo", op |-> op, raised |-> "none", val |-> val, sizes |-> <<>>]
Raised(op, what) ==
  [svc |-> "vdo", op |-> op, raised |-> what, val |-> ERROR, sizes |-> <<>>]
Sized(how, made) == [how EXCEPT !.sizes = <<made.queried, made.size>>]
NoRet == [Returned("none", SUCCESS) EXCEPT !.svc = "none"]

\* An operation ends as its code says unless a call's CommandError was
\* left uncaught, which then leaves the operation.
Ending(r, how) ==
  IF r.ok THEN how ELSE [how EXCEPT !.raised = "CommandError", !.val = ERROR]

\* The external commands.  A command run on the system succeeds only where
\* the system allows it (and may fail even there); a command that succeeds
\* changes the system.  Commands that only report (dmsetup status, lvs,
\* the mount list, kill -0) report the system as it is.
\* A logical volume is in use while the device-mapper target built on it
\* exists (a Target's volume) or while it is mounted (an Index's volume).
InUse(w) == IF "dm" \in DOMAIN w THEN w.dm # "absent" ELSE w.mounted

Pre(c, w, size) ==
  CASE c = "lvcreate" -> ~w.lv
    [] c = "lvextend" -> w.lv /\ size > w.lvSize
    [] c \in {"lvreduce", "lvchange -ay", "vdoformat",
              "vdoformat --rebuild-statistics", "vdoformat --force-rebuild"}
         -> w.lv
    [] c \in {"lvchange -an", "lvremove"} -> w.lv /\ ~InUse(w)
    [] c = "modprobe" -> TRUE
    [] c = "modprobe -r" -> w.module /\ w.dm = "absent"
    [] c = "dmsetup create" -> w.lv /\ w.module /\ w.dm = "absent"
    [] c = "dmsetup remove" -> w.dm # "absent" /\ ~w.mounted
    [] c \in {"dmsetup suspend", "dmsetup resume", "dmsetup message"}
         -> w.dm # "absent"
    [] c = "umount -f" -> w.mounted
    [] c = "compression on" -> w.dm = "active"
    [] c = "mkfs" -> w.lv /\ ~w.mounted
    [] c = "mkdir" -> TRUE
    [] c = "mount -t ext3" -> w.lv /\ w.fs /\ w.dir /\ ~w.mounted
    [] c \in {"chmod", "albcreate"} -> w.dir
    [] c = "rm -rf" -> ~w.mounted
    [] c = "albserver" -> w.index /\ ~w.server
    [] c \in {"albping", "kill", "kill -9"} -> w.server

Effect(c, w, size) ==
  CASE c \in {"lvcreate", "lvextend"} -> [w EXCEPT !.lv = TRUE, !.lvSize = size]
    [] c = "lvreduce" -> [w EXCEPT !.lvSize = size]
    [] c = "lvremove" -> [w EXCEPT !.lv = FALSE, !.lvSize = 0]
    [] c = "modprobe" -> [w EXCEPT !.module = TRUE]
    [] c = "modprobe -r" -> [w EXCEPT !.module = FALSE]
    [] c \in {"dmsetup create", "dmsetup resume"} -> [w EXCEPT !.dm = "active"]
    [] c = "dmsetup remove" -> [w EXCEPT !.dm = "absent"]
    [] c = "dmsetup suspend" -> [w EXCEPT !.dm = "suspended"]
    [] c = "umount -f" -> [w EXCEPT !.mounted = FALSE]
    [] c = "mkfs" -> [w EXCEPT !.fs = TRUE]
    [] c = "mkdir" -> [w EXCEPT !.dir = TRUE]
    [] c = "mount -t ext3" -> [w EXCEPT !.mounted = TRUE]
    [] c = "albcreate" -> [w EXCEPT !.index = TRUE]
    [] c = "rm -rf" -> [w EXCEPT !.dir = FALSE, !.index = FALSE]
    [] c = "albserver" -> [w EXCEPT !.server = TRUE]
    [] c \in {"kill", "kill -9"} -> [w EXCEPT !.server = FALSE]
    [] OTHER -> w

\* Command.__call__() inside an operation: r is the system and the commands
\* called so far, each with whether its call returned; good says whether
\* the command, if it runs, is let to succeed.  In simulate mode the call
\* returns at once.  ok: the call returned without CommandError.
Called(c, ok) == [cmd |-> c, ok |-> ok]
Issue(r, c, size, good) ==
  Let(~defaultNoRun /\ good /\ Pre(c, r.w, size), LAMBDA works :
    [w |-> IF works THEN Effect(c, r.w, size) ELSE r.w,
     log |-> Append(r.log, Called(c, defaultNoRun \/ works)),
     ok |-> defaultNoRun \/ works])

\* except CommandError: the failure of the calls so far goes no further.
Caught(r) == [r EXCEPT !.ok = TRUE]

\* A command that only reports: it is called, and answers truly.
Asked(r, c, answer) ==
  [r EXCEPT !.log = Append(r.log, Called(c, defaultNoRun \/ answer))]

\* Command.waitFor(): in simulate mode it returns before any call; else the
\* one entry stands for the loop, which fails if every attempt failed.
Waited(r, c, size, good) ==
  IF defaultNoRun THEN r ELSE Issue(r, c, size, good)
Awaited(r, c, answer) == IF defaultNoRun THEN r ELSE Asked(r, c, answer)

\* n calls of the command c in a row, each of them ending the same way.
RECURSIVE Polled(_, _, _, _)
Polled(r, c, n, ok) ==
  IF n = 0 THEN r
  ELSE Polled([r EXCEPT !.log = Append(r.log, Called(c, ok))], c, n - 1, ok)

\* The commands of an operation that fail if they run: any of those it
\* may call, up to MaxFailures of them.
Failing(commands) == {f \in SUBSET commands : Cardinality(f) <= MaxFailures}

\* An operation starts with the system as it is and no command called.
Begin(w) == [w |-> w, log |-> <<>>, ok |-> TRUE]

\* Sizes in bytes: what a caller may ask for (0: unset, all free space) and
\* what the volume manager may make of it.
AskedSizes == {0, 9000}
GrownSizes == {0, 13000}
RealizedSizes == {8192, 13312}
Realizable(asked) == {z \in RealizedSizes : z >= asked}

\* LogicalVolume.reduce(): three calls that swallow their failures; lv is
\* the LogicalVolume's saved _physicalSize.
LvReduce(r, lv, size, o) ==
  Let(Issue(r, "lvchange -an", 0, "reduce -an" \notin o), LAMBDA r1 :
  Let(Issue(r1, "lvreduce", size, "lvreduce" \notin o), LAMBDA r2 :
  Let(Issue(r2, "lvchange -ay", 0, "reduce -ay" \notin o), LAMBDA r3 :
    [r |-> Caught(r3), lv |-> size])))

\* LogicalVolume.getSize(): the saved size in simulate mode, else what lvs
\* reports (nothing, read as zero, where there is no volume).
LvGetSize(r, lv) ==
  IF defaultNoRun THEN lv ELSE IF r.w.lv THEN r.w.lvSize ELSE 0

LvRoundSizeKeeps(r, lv, blockSize, o) ==
  Let(LvGetSize(r, lv), LAMBDA lvSize :
  Let(lvSize % blockSize, LAMBDA slop :
    IF slop # 0
      THEN Let(LvReduce(r, lv, lvSize - slop, o), LAMBDA red :
             [r |-> red.r, lv |-> red.lv, queried |-> lvSize,
              size |-> lvSize])
      ELSE [r |-> r, lv |-> lv, queried |-> lvSize, size |-> lvSize]))
\* LogicalVolume._roundSize(): queried is what getSize() gave, size what is
\* returned.
LvRoundSize(r, lv, blockSize, o) ==
  Let(LvGetSize(r, lv), LAMBDA lvSize :
  Let(lvSize % blockSize, LAMBDA slop :
    IF slop # 0
      THEN Let(LvReduce(r, lv, lvSize - slop, o), LAMBDA red :
             [r |-> red.r, lv |-> red.lv, queried |-> lvSize,
              size |-> lvSize - slop])
      ELSE [r |-> r, lv |-> lv, queried |-> lvSize, size |-> lvSize]))

\* LogicalVolume.create() and extend() past the size check: c is lvcreate
\* or lvextend.  r.ok FALSE: CommandError raised.
LvMake(r, c, lv, blockSize, asked, realized, o) ==
  Let(IF asked # 0 THEN asked ELSE lv, LAMBDA lv1 :
  Let(Issue(r, c, realized, c \notin o), LAMBDA r1 :
    IF ~r1.ok
      THEN [r |-> r1, lv |-> lv1, queried |-> 0, size |-> 0]
      ELSE LvRoundSize(r1, lv1, blockSize, o)))

\* LogicalVolume._physicalSizeCheck(): no check in simulate mode or without
\* a maximum; tooLarge says the size asked for (or the free space) exceeds
\* the maximum.
SizeCheckRaises(hasMaximum, tooLarge) ==
  ~defaultNoRun /\ hasMaximum /\ tooLarge

LvRemoveRaises(r, lv, noThrow, o) ==
  Let(Waited(r, "lvchange -an", 0, "remove -an" \notin o), LAMBDA r1 :
    IF ~r1.ok THEN [r |-> r1, lv |-> lv]
    ELSE Let(Waited(r1, "lvremove", 0, "lvremove" \notin o), LAMBDA r2 :
           IF ~r2.ok THEN [r |-> r2, lv |-> lv]
           ELSE [r |-> r2, lv |-> 0]))
\* LogicalVolume.remove(): r.ok FALSE is a CommandError, which the caller
\* sees unless noThrow.
LvRemove(r, lv, noThrow, o) ==
  Let(Waited(r, "lvchange -an", 0, "remove -an" \notin o), LAMBDA r1 :
    IF ~r1.ok THEN [r |-> [r1 EXCEPT !.ok = noThrow], lv |-> lv]
    ELSE Let(Waited(r1, "lvremove", 0, "lvremove" \notin o), LAMBDA r2 :
           IF ~r2.ok THEN [r |-> [r2 EXCEPT !.ok = noThrow], lv |-> lv]
           ELSE [r |-> r2, lv |-> 0]))

\* The end of an operation: the system and the calls made, the service
\* object, and what the code returns or raises.
End(r, obj, how) == [r |-> r, obj |-> obj, how |-> how]

\* What an operation on the Target service leaves behind.
VdoDone(e) ==
  /\ vdoWorld' = e.r.w
  /\ vdo' = e.obj
  /\ issued' = e.r.log
  /\ ret' = Ending(e.r, e.how)
  /\ UNCHANGED <<albWorld, alb>>
  /\ UNCHANGED notSvcVars

CreateCommands ==
  {"lvcreate", "reduce -an", "lvreduce", "reduce -ay", "vdoformat",
   "remove -an", "lvremove"}

VdoCreateEndKeeps(tooLarge, realized, o) ==
  IF SizeCheckRaises(TRUE, tooLarge)
    THEN End(Begin(vdoWorld), vdo, Raised("create", "ArgumentError"))
  ELSE
  Let(LvMake(Begin(vdoWorld), "lvcreate", vdo.lv, vdoPhysicalBlockSize,
             vdo.physicalSize, realized, o), LAMBDA made :
    IF ~made.r.ok
      THEN End(Caught(made.r), [vdo EXCEPT !.lv = made.lv],
               Returned("create", ERROR))
    ELSE
    Let(IF vdo.logicalSize = 0 THEN made.size ELSE vdo.logicalSize,
        LAMBDA logicalSize :
    Let([vdo EXCEPT !.lv = made.lv, !.physicalSize = made.size,
           !.logicalSize = (logicalSize \div vdoPhysicalBlockSize)
                             * vdoPhysicalBlockSize], LAMBDA sized :
    Let(Issue(made.r, "vdoformat", 0, "vdoformat" \notin o), LAMBDA fmt :
      IF fmt.ok
        THEN End(fmt, sized, Sized(Returned("create", SUCCESS), made))
      ELSE
      End(Caught(fmt), sized, Sized(Returned("create", ERROR), made))))))
\* VdoService.create()
VdoCreateEnd(tooLarge, realized, o) ==
  IF SizeCheckRaises(TRUE, tooLarge)
    THEN End(Begin(vdoWorld), vdo, Raised("create", "ArgumentError"))
  ELSE
  Let(LvMake(Begin(vdoWorld), "lvcreate", vdo.lv, vdoPhysicalBlockSize,
             vdo.physicalSize, realized, o), LAMBDA made :
    IF ~made.r.ok
      THEN End(Caught(made.r), [vdo EXCEPT !.lv = made.lv],
               Returned("create", ERROR))
    ELSE
    Let(IF vdo.logicalSize = 0 THEN made.size ELSE vdo.logicalSize,
        LAMBDA logicalSize :
    Let([vdo EXCEPT !.lv = made.lv, !.physicalSize = made.size,
           !.logicalSize = (logicalSize \div vdoPhysicalBlockSize)
                             * vdoPhysicalBlockSize], LAMBDA sized :
    Let(Issue(made.r, "vdoformat", 0, "vdoformat" \notin o), LAMBDA fmt :
      IF fmt.ok
        THEN End(fmt, sized, Sized(Returned("create", SUCCESS), made))
      ELSE
      Let(LvRemove(Caught(fmt), sized.lv, TRUE, o), LAMBDA rm :
        End(rm.r, [sized EXCEPT !.lv = rm.lv],
            Sized(Returned("create", ERROR), made)))))))

VdoCreate ==
  \/ VdoDone(VdoCreateEnd(TRUE, 0, {}))
  \/ \E o \in Failing(CreateCommands) :
       \E realized \in Realizable(vdo.physicalSize) :
         VdoDone(VdoCreateEnd(FALSE, realized, o))

\* VdoService.remove()
VdoRemoveEnd(o) ==
  Let(LvRemove(Begin(vdoWorld), vdo.lv, TRUE, o), LAMBDA rm :
    End(rm.r, [vdo EXCEPT !.lv = rm.lv], Returned("remove", SUCCESS)))

VdoRemove == \E o \in Failing({"remove -an", "lvremove"}) : VdoDone(VdoRemoveEnd(o))

\* VdoService.have(), LogicalVolume.exists(): the volume's relative path
\* vg/lv is looked up in the working directory (pathSeen), then lvs is
\* called.
VdoHaveEnd(pathSeen) ==
  IF ~pathSeen
    THEN End(Begin(vdoWorld), vdo, Returned("have", 0))
    ELSE End(Asked(Begin(vdoWorld), "lvs", vdoWorld.lv), vdo,
             Returned("have", IF defaultNoRun \/ vdoWorld.lv THEN 1 ELSE 0))

VdoHave == \E pathSeen \in BOOLEAN : VdoDone(VdoHaveEnd(pathSeen))

RunningNever(w) == defaultNoRun
\* VdoService.running(): dmsetup status
Running(w) == defaultNoRun \/ w.dm # "absent"
AskRunning(r) == Asked(r, "dmsetup status", r.w.dm # "absent")

VdoRunning ==
  VdoDone(End(AskRunning(Begin(vdoWorld)), vdo,
              Returned("running", IF Running(vdoWorld) THEN 1 ELSE 0)))

\* KernelModuleService.start(), stop(), running()
KmsStartEnd(r0, good) ==
  Let(Issue(r0, "modprobe", 0, good), LAMBDA r :
    End(Caught(r), vdo,
        Returned("kms.start", IF r.ok THEN SUCCESS ELSE ERROR)))

KmsStart == \E good \in BOOLEAN : VdoDone(KmsStartEnd(Begin(vdoWorld), good))

KmsStopEnd(good) ==
  Let(Issue(Begin(vdoWorld), "modprobe -r", 0, good), LAMBDA r :
    End(Caught(r), vdo,
        Returned("kms.stop", IF r.ok THEN SUCCESS ELSE ERROR)))

KmsStop == \E good \in BOOLEAN : VdoDone(KmsStopEnd(good))

KmsRunningEnd ==
  Let(Awaited(Begin(vdoWorld), "lsmod", vdoWorld.module), LAMBDA r1 :
    IF defaultNoRun \/ vdoWorld.module
      THEN End(Awaited(r1, "dmsetup targets", vdoWorld.module), vdo,
               Returned("kms.running", 1))
      ELSE End(r1, vdo, Returned("kms.running", 0)))

KmsRunning == VdoDone(KmsRunningEnd)

StartCommands ==
  {"modprobe", "lvchange -ay", "vdoformat --rebuild-statistics",
   "vdoformat --force-rebuild", "dmsetup create", "compression on"}

VdoStartDeviceQuiet(ready, o) ==
  Let(Issue(ready, "dmsetup create", 0, "dmsetup create" \notin o),
      LAMBDA dm :
    IF ~dm.ok THEN End(Caught(dm), vdo, Returned("start", ERROR))
    ELSE IF ~vdo.enableCompression
      THEN End(dm, vdo, Returned("start", SUCCESS))
    ELSE
    Let(Issue(dm, "compression on", 0, "compression on" \notin o),
        LAMBDA comp :
      End(Caught(comp), vdo, Returned("start", SUCCESS))))
\* VdoService.start() from dmsetup create on
VdoStartDevice(ready, o) ==
  Let(Issue(ready, "dmsetup create", 0, "dmsetup create" \notin o),
      LAMBDA dm :
    IF ~dm.ok THEN End(Caught(dm), vdo, Returned("start", ERROR))
    ELSE IF ~vdo.enableCompression
      THEN End(dm, vdo, Returned("start", SUCCESS))
    ELSE
    Let(Issue(dm, "compression on", 0, "compression on" \notin o),
        LAMBDA comp :
      End(Caught(comp), vdo,
          Returned("start", IF comp.ok THEN SUCCESS ELSE ERROR))))

VdoStartEndForces(rebuildStatistics, forceRebuild, resolves, o) ==
  IF ~vdo.enabled
    THEN End(Begin(vdoWorld), vdo, Returned("start", SUCCESS))
  ELSE
  Let(AskRunning(Begin(vdoWorld)), LAMBDA r0 :
    IF Running(vdoWorld) /\ ~defaultNoRun
      THEN End(r0, vdo, Returned("start", ALREADY))
    ELSE
    Let(KmsStartEnd(r0, "modprobe" \notin o), LAMBDA kms :
      IF kms.how.val = ERROR
        THEN End(kms.r, vdo, Returned("start", ERROR))
      ELSE
      Let(Caught(Issue(kms.r, "lvchange -ay", 0, "lvchange -ay" \notin o)),
          LAMBDA avail :
        IF ~resolves THEN End(avail, vdo, Raised("start", "gaierror"))
        ELSE
        Let(IF forceRebuild
              THEN Issue(avail, "vdoformat --force-rebuild", 0,
                         "vdoformat --force-rebuild" \notin o)
            ELSE IF rebuildStatistics
              THEN Issue(avail, "vdoformat --rebuild-statistics", 0,
                         "vdoformat --rebuild-statistics" \notin o)
            ELSE avail, LAMBDA ready :
          IF ~ready.ok
            THEN End(Caught(ready), vdo, Returned("start", ERROR))
            ELSE VdoStartDevice(ready, o)))))
\* VdoService.start(): resolves says whether the host of the network spec
\* has an address.
VdoStartEnd(rebuildStatistics, forceRebuild, resolves, o) ==
  IF ~vdo.enabled
    THEN End(Begin(vdoWorld), vdo, Returned("start", SUCCESS))
  ELSE
  Let(AskRunning(Begin(vdoWorld)), LAMBDA r0 :
    IF Running(vdoWorld) /\ ~defaultNoRun
      THEN End(r0, vdo, Returned("start", ALREADY))
    ELSE
    Let(KmsStartEnd(r0, "modprobe" \notin o), LAMBDA kms :
      IF kms.how.val = ERROR
        THEN End(kms.r, vdo, Returned("start", ERROR))
      ELSE
      Let(Caught(Issue(kms.r, "lvchange -ay", 0, "lvchange -ay" \notin o)),
          LAMBDA avail :
        IF ~resolves THEN End(avail, vdo, Raised("start", "gaierror"))
        ELSE
        Let(IF rebuildStatistics
              THEN Issue(avail, "vdoformat --rebuild-statistics", 0,
                         "vdoformat --rebuild-statistics" \notin o)
            ELSE IF forceRebuild
              THEN Issue(avail, "vdoformat --force-rebuild", 0,
                         "vdoformat --force-rebuild" \notin o)
            ELSE avail, LAMBDA ready :
          IF ~ready.ok
            THEN End(Caught(ready), vdo, Returned("start", ERROR))
            ELSE VdoStartDevice(ready, o)))))

VdoStart ==
  \/ \E o \in Failing({"modprobe", "lvchange -ay"}) :
       VdoDone(VdoStartEnd(FALSE, FALSE, FALSE, o))
  \/ \E rebuildStatistics \in BOOLEAN, forceRebuild \in BOOLEAN,
        o \in Failing(StartCommands) :
       VdoDone(VdoStartEnd(rebuildStatistics, forceRebuild, TRUE, o))

HasMountsNever(w) == FALSE
\* VdoService._hasMounts(): the mount list
HasMounts(w) == ~defaultNoRun /\ w.mounted

\* VdoService.stop()
VdoStopEnd(force, o) ==
  Let(AskRunning(Begin(vdoWorld)), LAMBDA r0 :
    IF ~Running(vdoWorld) /\ ~defaultNoRun
      THEN End(r0, vdo, Returned("stop", ALREADY))
    ELSE
    Let(Asked(r0, "mount", TRUE), LAMBDA r1 :
      IF HasMounts(vdoWorld) /\ ~force
        THEN End(r1, vdo, Returned("stop", ERROR))
      ELSE
      Let(IF HasMounts(vdoWorld)
            THEN Caught(Issue(r1, "umount -f", 0, "umount -f" \notin o))
            ELSE r1, LAMBDA r2 :
      Let(Issue(r2, "dmsetup remove", 0, "dmsetup remove" \notin o),
          LAMBDA dm :
        End(Caught(dm), vdo,
            Returned("stop", IF dm.ok THEN SUCCESS ELSE ERROR))))))

VdoStop ==
  \E force \in BOOLEAN, o \in Failing({"umount -f", "dmsetup remove"}) :
    VdoDone(VdoStopEnd(force, o))

GrowCommands ==
  {"lvextend", "reduce -an", "lvreduce", "reduce -ay", "dmsetup suspend",
   "dmsetup message", "dmsetup resume"}

VdoReconfigureSkips(ext, sus, o) ==
  Let(Issue(sus, "dmsetup message", 0, "dmsetup message" \notin o),
      LAMBDA msg :
  Let([vdo EXCEPT !.lv = ext.lv,
         !.physicalSize = IF msg.ok THEN ext.size ELSE @], LAMBDA grown :
  Let(IF msg.ok
        THEN Issue(msg, "dmsetup resume", 0, "dmsetup resume" \notin o)
        ELSE Caught(msg), LAMBDA res :
    IF ~res.ok
      THEN End(Caught(res), grown, Sized(Returned("growPhysical", 1), ext))
    ELSE IF msg.ok
      THEN End(res, grown, Sized(Returned("growPhysical", 0), ext))
    ELSE
    Let(LvReduce(res, ext.lv, vdo.physicalSize, o), LAMBDA back :
      End(back.r, [grown EXCEPT !.lv = back.lv],
          Sized(Returned("growPhysical", 1), ext))))))
\* VdoService.growPhysical() from the reconfigure message on: ext is what
\* extend() gave, sus the system with the target suspended.
VdoReconfigure(ext, sus, o) ==
  Let(Issue(sus, "dmsetup message", 0, "dmsetup message" \notin o),
      LAMBDA msg :
  Let([vdo EXCEPT !.lv = ext.lv,
         !.physicalSize = IF msg.ok THEN ext.size ELSE @], LAMBDA grown :
  Let(Issue(Caught(msg), "dmsetup resume", 0, "dmsetup resume" \notin o),
      LAMBDA res :
    IF ~res.ok
      THEN End(Caught(res), grown, Sized(Returned("growPhysical", 1), ext))
    ELSE IF msg.ok
      THEN End(res, grown, Sized(Returned("growPhysical", 0), ext))
    ELSE
    Let(LvReduce(res, ext.lv, vdo.physicalSize, o), LAMBDA back :
      End(back.r, [grown EXCEPT !.lv = back.lv],
          Sized(Returned("growPhysical", 1), ext))))))

VdoGrowEndLeaves(newPhysicalSize, tooLarge, realized, o) ==
  IF SizeCheckRaises(TRUE, tooLarge)
    THEN End(Begin(vdoWorld), vdo, Raised("growPhysical", "ArgumentError"))
  ELSE
  Let(LvMake(Begin(vdoWorld), "lvextend", vdo.lv, vdoPhysicalBlockSize,
             newPhysicalSize, realized, o), LAMBDA ext :
    IF ~ext.r.ok
      THEN End(Caught(ext.r), [vdo EXCEPT !.lv = ext.lv],
               Returned("growPhysical", 1))
    ELSE
    Let(Issue(ext.r, "dmsetup suspend", 0, "dmsetup suspend" \notin o),
        LAMBDA sus :
      IF ~sus.ok
        THEN End(Caught(sus), [vdo EXCEPT !.lv = ext.lv],
                 Sized(Returned("growPhysical", 1), ext))
        ELSE VdoReconfigure(ext, sus, o)))
\* VdoService.growPhysical()
VdoGrowEnd(newPhysicalSize, tooLarge, realized, o) ==
  IF SizeCheckRaises(TRUE, tooLarge)
    THEN End(Begin(vdoWorld), vdo, Raised("growPhysical", "ArgumentError"))
  ELSE
  Let(LvMake(Begin(vdoWorld), "lvextend", vdo.lv, vdoPhysicalBlockSize,
             newPhysicalSize, realized, o), LAMBDA ext :
    IF ~ext.r.ok
      THEN End(Caught(ext.r), [vdo EXCEPT !.lv = ext.lv],
               Returned("growPhysical", 1))
    ELSE
    Let(Issue(ext.r, "dmsetup suspend", 0, "dmsetup suspend" \notin o),
        LAMBDA sus :
      IF ~sus.ok
        THEN Let(LvReduce(Caught(sus), ext.lv, vdo.physicalSize, o),
                 LAMBDA undo :
               End(undo.r, [vdo EXCEPT !.lv = undo.lv],
                   Sized(Returned("growPhysical", 1), ext)))
        ELSE VdoReconfigure(ext, sus, o)))

VdoGrowPhysical ==
  \E newPhysicalSize \in GrownSizes :
    \/ VdoDone(VdoGrowEnd(newPhysicalSize, TRUE, 0, {}))
    \/ \E o \in Failing(GrowCommands) :
         \E realized \in Realizable(newPhysicalSize) :
           VdoDone(VdoGrowEnd(newPhysicalSize, FALSE, realized, o))

\* A filesystem is mounted on the device by someone else.
VdoMount ==
  /\ vdoWorld.dm = "active"
  /\ ~vdoWorld.mounted
  /\ vdoWorld' = [vdoWorld EXCEPT !.mounted = TRUE]
  /\ UNCHANGED <<albWorld, vdo, alb, issued, ret>>
  /\ UNCHANGED notSvcVars

\* VdoService.__init__() in a later invocation of the program: the service
\* is built again from its saved attributes, enabled or not as the saved
\* configuration says, while the system stays as it was.
VdoLoad ==
  /\ vdo' = [vdo EXCEPT !.enabled = ~@]
  /\ UNCHANGED <<vdoWorld, albWorld, alb, issued, ret>>
  /\ UNCHANGED notSvcVars

VdoNext ==
  \/ VdoLoad
  \/ VdoCreate
  \/ VdoRemove
  \/ VdoHave
  \/ VdoRunning
  \/ KmsStart
  \/ KmsStop
  \/ KmsRunning
  \/ VdoStart
  \/ VdoStop
  \/ VdoGrowPhysical
  \/ VdoMount

\* VdoService.__init__(): a service with sizes unset is given them by its
\* caller before create().
VdoNew(enabled, enableCompression, physicalSize, logicalSize) ==
  [enabled |-> enabled, enableCompression |-> enableCompression,
   physicalSize |-> physicalSize, logicalSize |-> logicalSize,
   lv |-> 0]

NoVdoWorld ==
  [lv |-> FALSE, lvSize |-> 0, dm |-> "absent", mounted |-> FALSE,
   module |-> FALSE]

\* What an operation on the Index service leaves behind.
AlbDone(e) ==
  /\ albWorld' = e.r.w
  /\ alb' = e.obj
  /\ issued' = e.r.log
  /\ ret' = [Ending(e.r, e.how) EXCEPT !.svc = "alb"]
  /\ UNCHANGED <<vdoWorld, vdo>>
  /\ UNCHANGED notSvcVars

\* AlbireoService.remove(): os.path.ismount() sees the system as it is.
AlbRemoveFrom(r, a, o) ==
  Let(IF r.w.mounted THEN Waited(r, "umount -f", 0, "umount -f" \notin o)
      ELSE r, LAMBDA r1 :
    IF ~r1.ok THEN End(Caught(r1), a, Returned("remove", ERROR))
    ELSE
    Let(Issue(r1, "rm -rf", 0, "rm -rf" \notin o), LAMBDA rm :
      IF ~rm.ok THEN End(Caught(rm), a, Returned("remove", ERROR))
      ELSE
      Let(LvRemove(rm, a.lv, FALSE, o), LAMBDA lv :
        End(Caught(lv.r), [a EXCEPT !.lv = lv.lv],
            Returned("remove", IF lv.r.ok THEN SUCCESS ELSE ERROR)))))

RemoveCommands == {"umount -f", "rm -rf", "remove -an", "lvremove"}

AlbRemove ==
  \E o \in Failing(RemoveCommands) :
    AlbDone(AlbRemoveFrom(Begin(albWorld), alb, o))

IndexCommands ==
  {"lvcreate", "reduce -an", "lvreduce", "reduce -ay", "mkfs", "mkdir",
   "mount -t ext3", "chmod", "albcreate"} \cup RemoveCommands

\* AlbireoService._createIndexDir(): the failure of mkfs, mkdir or mount
IndexDirFailed(failed, a, o) ==
  Let(LvRemove(Caught(failed), a.lv, TRUE, o), LAMBDA undo :
    End(undo.r, [a EXCEPT !.lv = undo.lv], Returned("create", ERROR)))

\* AlbireoService._createIndexDir(), with 4096 as the block size
CreateIndexDir(realized, o) ==
  Let(LvMake(Begin(albWorld), "lvcreate", alb.lv, 4096, alb.size,
             realized, o), LAMBDA made :
  Let([alb EXCEPT !.lv = made.lv], LAMBDA a :
    IF ~made.r.ok THEN End(Caught(made.r), a, Returned("create", ERROR))
    ELSE
    Let(Issue(made.r, "mkfs", 0, "mkfs" \notin o), LAMBDA mkfs :
      IF ~mkfs.ok THEN IndexDirFailed(mkfs, a, o)
      ELSE
      Let(Issue(mkfs, "mkdir", 0, "mkdir" \notin o), LAMBDA mkdir :
        IF ~mkdir.ok THEN IndexDirFailed(mkdir, a, o)
        ELSE
        Let(Issue(mkdir, "mount -t ext3", 0, "mount -t ext3" \notin o),
            LAMBDA mount :
          IF ~mount.ok THEN IndexDirFailed(mount, a, o)
          ELSE End(Caught(Issue(mount, "chmod", 0, "chmod" \notin o)), a,
                   Returned("create", SUCCESS)))))))

\* AlbireoService.create()
AlbCreateEnd(realized, o) ==
  Let(CreateIndexDir(realized, o), LAMBDA dir :
    IF dir.how.val # SUCCESS THEN dir
    ELSE
    Let(Issue(dir.r, "albcreate", 0, "albcreate" \notin o), LAMBDA made :
      IF made.ok THEN End(made, dir.obj, Returned("create", SUCCESS))
      ELSE
      Let(AlbRemoveFrom(Caught(made), dir.obj, o), LAMBDA rm :
        End(rm.r, rm.obj, Returned("create", ERROR)))))

AlbCreate ==
  \E o \in Failing(IndexCommands) :
    \E realized \in Realizable(alb.size) : AlbDone(AlbCreateEnd(realized, o))

\* AlbireoService.have()
AlbHave ==
  AlbDone(End(Begin(albWorld), alb,
              Returned("have", IF albWorld.index THEN 1 ELSE 0)))

\* AlbireoService.running(), _getPid(): the pid file and a signal to the
\* process, in simulate mode too.
AlbRunning ==
  AlbDone(End(Begin(albWorld), alb,
              Returned("running", IF albWorld.server THEN 1 ELSE 0)))

ServerCommands ==
  {"lvchange -ay", "mount -t ext3", "albserver", "umount -f", "albping"}

\* pingCmd.waitFor(): the server is pinged once a second until it answers,
\* WaitForRetries times at most; answer is the ping it answers to.  No ping
\* in simulate mode.
WaitForRetries == 20
PingAnswers == {1, WaitForRetries}
AlbPingTrusting(r, answer, o) ==
  IF defaultNoRun THEN r
  ELSE IF "albping" \in o \/ ~r.w.server
    THEN Polled(r, "albping", WaitForRetries, FALSE)
  ELSE Polled(Polled(r, "albping", answer - 1, FALSE), "albping", 1, TRUE)
AlbPing(r, answer, o) ==
  IF defaultNoRun THEN r
  ELSE IF "albping" \in o \/ ~r.w.server
    THEN [Polled(r, "albping", WaitForRetries, FALSE) EXCEPT !.ok = FALSE]
  ELSE Polled(Polled(r, "albping", answer - 1, FALSE), "albping", 1, TRUE)

AlbStartServerUnmounts(r1, didMount, readyCmd, answer, o) ==
  Let(Issue(r1, "albserver", 0, "albserver" \notin o), LAMBDA server :
    IF ~server.ok
      THEN End(Caught(Issue(Caught(server), "umount -f", 0,
                            "umount -f" \notin o)),
               alb, Returned("start", ERROR))
    ELSE IF readyCmd THEN End(server, alb, Returned("start", SUCCESS))
    ELSE
    Let(AlbPing(server, answer, o), LAMBDA ping :
      End(Caught(ping), alb,
          Returned("start", IF ping.ok THEN SUCCESS ELSE ERROR))))
\* AlbireoService.start() from the launch of the server on
AlbStartServer(r1, didMount, readyCmd, answer, o) ==
  Let(Issue(r1, "albserver", 0, "albserver" \notin o), LAMBDA server :
    IF ~server.ok
      THEN End(IF didMount
                 THEN Caught(Issue(Caught(server), "umount -f", 0,
                                   "umount -f" \notin o))
                 ELSE Caught(server),
               alb, Returned("start", ERROR))
    ELSE IF readyCmd THEN End(server, alb, Returned("start", SUCCESS))
    ELSE
    Let(AlbPing(server, answer, o), LAMBDA ping :
      End(Caught(ping), alb,
          Returned("start", IF ping.ok THEN SUCCESS ELSE ERROR))))

AlbStartEndAlways(readyCmd, answer, o) ==
  IF albWorld.server /\ ~defaultNoRun
    THEN End(Begin(albWorld), alb, Returned("start", ALREADY))
  ELSE IF albWorld.mounted
    THEN AlbStartServer(Begin(albWorld), FALSE, readyCmd, answer, o)
  ELSE
  Let(Caught(Issue(Begin(albWorld), "lvchange -ay", 0,
                   "lvchange -ay" \notin o)), LAMBDA avail :
  Let(Issue(avail, "mount -t ext3", 0, "mount -t ext3" \notin o),
      LAMBDA mount :
    IF ~mount.ok THEN End(Caught(mount), alb, Returned("start", ERROR))
    ELSE AlbStartServer(mount, TRUE, readyCmd, answer, o)))
\* AlbireoService.start()
AlbStartEnd(readyCmd, answer, o) ==
  IF ~alb.enabled THEN End(Begin(albWorld), alb, Returned("start", SUCCESS))
  ELSE IF albWorld.server /\ ~defaultNoRun
    THEN End(Begin(albWorld), alb, Returned("start", ALREADY))
  ELSE IF albWorld.mounted
    THEN AlbStartServer(Begin(albWorld), FALSE, readyCmd, answer, o)
  ELSE
  Let(Caught(Issue(Begin(albWorld), "lvchange -ay", 0,
                   "lvchange -ay" \notin o)), LAMBDA avail :
  Let(Issue(avail, "mount -t ext3", 0, "mount -t ext3" \notin o),
      LAMBDA mount :
    IF ~mount.ok THEN End(Caught(mount), alb, Returned("start", ERROR))
    ELSE AlbStartServer(mount, TRUE, readyCmd, answer, o)))

AlbStart ==
  \E o \in Failing(ServerCommands) :
    \/ AlbDone(AlbStartEnd(TRUE, 1, o))
    \/ \E answer \in PingAnswers : AlbDone(AlbStartEnd(FALSE, answer, o))

\* Utils.killProcess(): after a delivered signal the process is polled
\* (kill -0) once a second, KillRetries times at most; gone is the poll that
\* finds it dead, KillRetries + 1 for a process that outlives them all and
\* then gets kill -9.
KillRetries == 20
KillAnswers == {1, KillRetries, KillRetries + 1}
KillProcessHasty(r, gone, o) ==
  IF defaultNoRun THEN Issue(r, "kill", 0, TRUE)
  ELSE IF "kill" \in o \/ ~r.w.server
    THEN Caught(Issue(r, "kill", 0, FALSE))
  ELSE IF gone > 1
    THEN Let([r EXCEPT !.log = Append(r.log, Called("kill", TRUE))],
             LAMBDA sent :
           Caught(Issue(Polled(sent, "kill -0", 1, TRUE),
                        "kill -9", 0, "kill -9" \notin o)))
  ELSE Polled(Issue(r, "kill", 0, TRUE), "kill -0", 1, FALSE)
KillProcess(r, gone, o) ==
  IF defaultNoRun THEN Issue(r, "kill", 0, TRUE)
  ELSE IF "kill" \in o \/ ~r.w.server
    THEN Caught(Issue(r, "kill", 0, FALSE))
  ELSE IF gone > KillRetries
    THEN Let([r EXCEPT !.log = Append(r.log, Called("kill", TRUE))],
             LAMBDA sent :
           Caught(Issue(Polled(sent, "kill -0", KillRetries, TRUE),
                        "kill -9", 0, "kill -9" \notin o)))
  ELSE Polled(Polled(Issue(r, "kill", 0, TRUE), "kill -0", gone - 1, TRUE),
              "kill -0", 1, FALSE)

AlbStopEndLooks(gone, o) ==
  IF ~albWorld.server
    THEN End(Begin(albWorld), alb, Returned("stop", ALREADY))
  ELSE
  Let(KillProcess(Begin(albWorld), gone, o), LAMBDA kill :
    End(Caught(Waited(kill, "umount -f", 0, "umount -f" \notin o)), alb,
        Returned("stop", SUCCESS)))
\* AlbireoService.stop()
AlbStopEnd(gone, o) ==
  IF ~albWorld.server /\ ~defaultNoRun
    THEN End(Begin(albWorld), alb, Returned("stop", ALREADY))
  ELSE
  Let(KillProcess(Begin(albWorld), gone, o), LAMBDA kill :
    End(Caught(Waited(kill, "umount -f", 0, "umount -f" \notin o)), alb,
        Returned("stop", SUCCESS)))

AlbStop ==
  \E gone \in KillAnswers, o \in Failing({"kill", "kill -9", "umount -f"}) :
    AlbDone(AlbStopEnd(gone, o))

\* The server process dies by itself.
ServerExits ==
  /\ albWorld.server
  /\ albWorld' = [albWorld EXCEPT !.server = FALSE]
  /\ UNCHANGED <<vdoWorld, vdo, alb, issued, ret>>
  /\ UNCHANGED notSvcVars

\* AlbireoService.__init__() in a later invocation of the program
AlbLoad ==
  /\ alb' = [alb EXCEPT !.enabled = ~@]
  /\ UNCHANGED <<vdoWorld, albWorld, vdo, issued, ret>>
  /\ UNCHANGED notSvcVars

AlbNext ==
  \/ AlbLoad
  \/ AlbCreate
  \/ AlbRemove
  \/ AlbHave
  \/ AlbRunning
  \/ AlbStart
  \/ AlbStop
  \/ ServerExits

\* AlbireoService.__init__()
AlbNew(enabled, size) == [enabled |-> enabled, size |-> size, lv |-> 0]

NoAlbWorld ==
  [lv |-> FALSE, lvSize |-> 0, fs |-> FALSE, dir |-> FALSE,
   mounted |-> FALSE, index |-> FALSE, server |-> FALSE]

\* The services at rest, for the behaviours that do not use them.
SvcInit(vdos, albs) ==
  /\ vdoWorld = NoVdoWorld
  /\ albWorld = NoAlbWorld
  /\ vdo \in vdos
  /\ alb \in albs
  /\ issued = <<>>
  /\ ret = NoRet

Services ==
  {VdoNew(TRUE, c, p, l) : c \in BOOLEAN, p \in AskedSizes, l \in {0, 9000}}
Indexes == {AlbNew(TRUE, 9000)}

SvcQuiet == SvcInit({VdoNew(TRUE, FALSE, 0, 0)}, {AlbNew(TRUE, 9000)})

\* ------------------------------------------------------------------------
\* LogicalVolume.py: the constructor.  Paths are sequences of characters.
\* ------------------------------------------------------------------------
MaxNameLen == 2

Str(s) == [i \in 1 .. Len(s) |-> s[i]]
Slash == "/"
\* s.rfind('/') + 1
AfterLastSep(s) ==
  IF CountSep(s) = 0 THEN 0
  ELSE CHOOSE i \in DOMAIN s :
         s[i] = Slash /\ \A j \in DOMAIN s : s[j] = Slash => j <= i

\* s.rstrip('/')
RECURSIVE RStripSep(_)
RStripSep(s) ==
  IF s # <<>> /\ s[Len(s)] = Slash THEN RStripSep(SubSeq(s, 1, Len(s) - 1))
  ELSE s

\* os.path.split(): head and tail around the last separator; the head is
\* stripped of trailing separators unless it is made of separators only.
PathSplit(p) ==
  Let(AfterLastSep(p), LAMBDA i :
  Let(SubSeq(p, 1, i), LAMBDA head :
    [head |-> IF head # <<>> /\ CountSep(head) # Len(head)
                THEN RStripSep(head) ELSE head,
     tail |-> SubSeq(p, i + 1, Len(p))]))

\* os.path.basename()
PathBasename(p) == SubSeq(p, AfterLastSep(p) + 1, Len(p))

NoVolume == [raised |-> "none", made |-> FALSE, fullpath |-> <<>>,
             volumeGroup |-> <<>>, name |-> <<>>, lvpath |-> <<>>]

\* LogicalVolume.__init__()
LogicalVolumeNew(fullpath) ==
  IF ~LogicalVolumeValid(fullpath)
    THEN [NoVolume EXCEPT !.raised = "ArgumentError"]
  ELSE
  Let(PathSplit(fullpath), LAMBDA parts :
  Let(PathBasename(parts.head), LAMBDA group :
    [raised |-> "none", made |-> TRUE, fullpath |-> fullpath,
     volumeGroup |-> group, name |-> parts.tail,
     lvpath |-> group \o <<Slash>> \o parts.tail]))

\* The paths tried: a start, then two names around a separator or not.
Names == UNION {[1 .. n -> {"a", Slash}] : n \in 0 .. MaxNameLen}
Starts ==
  {DevPrefix, <<"/", "d", "e", "v">>, <<"d", "e", "v", "/">>,
   <<"/", "d", "e", "w", "/">>, <<Slash>>, <<>>}
Paths ==
  {Str(b \o g \o s \o v) :
     b \in Starts, g \in Names, s \in {<<Slash>>, <<>>}, v \in Names}

LvQuiet == volumePath = <<>> /\ volume = NoVolume

LvConstruct ==
  /\ volumePath' \in Paths
  /\ volume' = LogicalVolumeNew(volumePath')
  /\ UNCHANGED notLvVars

LockQuiet == LockInit /\ \A p \in Procs : cmdLock[p].readonly

vars == <<lockVars, cmdVars, confVars, svcVars, lvVars>>

LockNext ==
  \E p \in Procs :
     \/ Lock(p)
     \/ LockAttempt(p)
     \/ LockTimeout(p)
     \/ Unlock(p)
     \/ Enter(p)
     \/ \E raised \in BOOLEAN : Exit(p, raised)
     \/ \E ro \in BOOLEAN : DelAndNew(p, ro)
     \/ \E ro \in BOOLEAN : ProcessExit(p, ro)

InitLock == LockInit /\ CmdQuiet /\ ConfQuiet /\ SvcQuiet /\ LvQuiet
SpecLock == InitLock /\ [][LockNext]_vars

InitCmd == CmdInit /\ LockQuiet /\ ConfQuiet /\ SvcQuiet /\ LvQuiet
SpecCmd == InitCmd /\ [][CmdNext]_vars

InitConf ==
  /\ ConfInit(InitialFiles, {BaseInputs}) /\ CmdInit /\ LockQuiet /\ SvcQuiet
  /\ LvQuiet
SpecConf == InitConf /\ [][ConfNext]_vars

LockExclusive == LockInit /\ \A p \in Procs : ~cmdLock[p].readonly
InitWrite ==
  /\ LockExclusive /\ CmdQuiet /\ SvcQuiet /\ LvQuiet
  /\ ConfInit({NoFile, File(<<>>)}, {BaseInputs})
SpecWrite == InitWrite /\ [][WriteNext]_vars

InitRoundTrip ==
  /\ ConfInit({NoFile}, RoundTripInputs) /\ CmdQuiet /\ LockQuiet /\ SvcQuiet
  /\ LvQuiet
SpecRoundTrip == InitRoundTrip /\ [][RoundTripNext]_vars

InitVdo ==
  /\ SvcInit(Services, {AlbNew(TRUE, 9000)})
  /\ CmdInit /\ LockQuiet /\ ConfQuiet /\ LvQuiet
SpecVdo == InitVdo /\ [][VdoNext]_vars

InitAlb ==
  /\ SvcInit({VdoNew(TRUE, FALSE, 0, 0)}, Indexes)
  /\ CmdInit /\ LockQuiet /\ ConfQuiet /\ LvQuiet
SpecAlb == InitAlb /\ [][AlbNext]_vars

\* Both services, a behaviour exercising one of them: the Target and the
\* kernel module, or the Index.  The operations of one service read and
\* write nothing of the other, so nothing a service can do is left out.
TargetStep == ret.svc # "alb" /\ VdoNext
IndexStep == ret.svc \in {"none", "alb"} /\ AlbNext
SvcNext == TargetStep \/ IndexStep
InitSvc ==
  /\ SvcInit({VdoNew(TRUE, TRUE, 0, 0)}, Indexes)
  /\ CmdInit /\ LockQuiet /\ ConfQuiet /\ LvQuiet
SpecSvc == InitSvc /\ [][SvcNext]_vars

LvNext == LvConstruct
InitLv == LvQuiet /\ CmdQuiet /\ LockQuiet /\ ConfQuiet /\ SvcQuiet
SpecLv == InitLv /\ [][LvNext]_vars

\* The fairness the scheduling gives: a process inside lock() keeps running
\* (time.sleep(1) returns), so its loop takes its next step.
SpecLockFair ==
  /\ InitLock
  /\ [][LockNext]_vars
  /\ \A p \in Procs : WF_vars(LockAttempt(p) \/ LockTimeout(p))

\* ------------------------------------------------------------------------
\* Claims about CommandLock
\* ------------------------------------------------------------------------
Holds(p) == cmdLock[p].locked

\* C2: an exclusive (readonly=False) holder never holds the lock together
\* with any other holder, a holder has a descriptor carrying the lock of its
\* kind, and a shared request that meets only shared locks is not refused.
C2_ExclusiveExcludes ==
  \A p \in Procs :
     /\ Holds(p) =>
          \E f \in Fds : ofd[p][f] = (IF cmdLock[p].readonly THEN "sh" ELSE "ex")
     /\ Holds(p) /\ ~cmdLock[p].readonly =>
          \A q \in Procs \ {p} : ~Holds(q)
     /\ ( /\ pc[p] # "idle"
          /\ cmdLock[p].readonly
          /\ \A q \in Procs, g \in Fds : ofd[q][g] # "ex" )
        => ~FlockConflict(p, cmdLock[p].fd, LockMode(cmdLock[p].readonly))

\* An exclusive holder holds the lock while the other process has been
\* refused at least once.
C2_Witness ==
  \E p \in Procs, q \in Procs :
     /\ p # q
     /\ Holds(p) /\ ~cmdLock[p].readonly
     /\ pc[q] # "idle" /\ count[q] > 0

\* Two shared holders hold the lock at the same time.
SharedHoldersCoexist ==
  \A p \in Procs : Holds(p) /\ cmdLock[p].readonly

\* C3: lock() makes at most lockRetries attempts; it returns with _locked
\* set on the first attempt that is not refused, every refused attempt is
\* counted (so the loop cannot go round without using up its budget), and
\* CommandLockTimeout is raised exactly after lockRetries refused attempts.
C3_LockStep(p) ==
  /\ count'[p] <= lockRetries
  /\ (pc[p] # "idle" /\ pc'[p] = "idle" /\ result'[p] = "ok") =>
        /\ cmdLock'[p].locked
        /\ count[p] < lockRetries
        /\ ~FlockConflict(p, cmdLock[p].fd, LockMode(cmdLock[p].readonly))
  /\ (pc[p] # "idle" /\ pc'[p] = "idle" /\ result'[p] = "CommandLockTimeout") =>
        count[p] = lockRetries
  /\ (pc[p] # "idle" /\ pc'[p] = "idle" /\ count[p] = lockRetries) =>
        result'[p] = "CommandLockTimeout"
  /\ (pc[p] # "idle" /\ pc'[p] # "idle" /\ count'[p] # count[p]) =>
        /\ count'[p] = count[p] + 1
        /\ FlockConflict(p, cmdLock[p].fd, LockMode(cmdLock[p].readonly))

C3_LockTerminates == [][\A p \in Procs : C3_LockStep(p)]_vars

\* Under the fairness of SpecLockFair a process inside lock() leaves it.
LockEventuallyReturns ==
  \A p \in Procs : (pc[p] # "idle") ~> (pc[p] = "idle")

\* lock() has just raised CommandLockTimeout.
C3_Witness ==
  \E p \in Procs : pc[p] = "idle" /\ result[p] = "CommandLockTimeout"

\* C4: after unlock(), and after the exit of a guarded block (normal or by
\* raising), the lock is not held and the descriptor is closed:
\* _locked = False and _fd = -1.
C4_UnlockClosesDescriptor ==
  \A p \in Procs :
     (pc[p] = "idle" /\ result[p] \in {"unlocked", "raised"}) =>
        ~cmdLock[p].locked /\ cmdLock[p].fd = NoFd


\* C39: between operations on a CommandLock (no lock() in progress) the
\* descriptor is open exactly when the lock is held: _fd # -1 if and only
\* if _locked, also after a lock() that ended in a timeout or an error.
C39_DescriptorIffLocked ==
  \A p \in Procs :
    pc[p] = "idle" => (cmdLock[p].fd # NoFd <=> cmdLock[p].locked)

\* ------------------------------------------------------------------------
\* Claims about Command
\* ------------------------------------------------------------------------
RunsInWaitFor == command.numRun - waitBase
LastRunSucceeded == lastOutcome.spawned /\ lastOutcome.rc = 0

\* C8: in non-simulate mode waitFor(retries=N) runs the command at most N
\* times, goes on only after a failed run, returns normally only after a
\* successful run, and raises the timed-out CommandError only after exactly
\* N runs.
C8_WaitForState ==
  /\ cmdPc = "waiting" =>
        /\ ~command.noRun
        /\ RunsInWaitFor = waitCount
        /\ waitCount <= retries
  /\ (cmdPc = "idle" /\ cmdResult.op = "waitFor" /\ ~command.noRun) =>
        /\ RunsInWaitFor <= retries
        /\ ~cmdResult.raised => RunsInWaitFor >= 1 /\ LastRunSucceeded
        /\ cmdResult.raised =>
              /\ RunsInWaitFor = retries
              /\ cmdResult.msg = Msg("timed out", retries)
              /\ retries > 0 => ~LastRunSucceeded

C8_WaitForStep ==
  (cmdPc = "waiting" /\ command'.numRun # command.numRun) =>
     /\ command'.numRun = command.numRun + 1
     /\ cmdPc' = "waiting" <=> ~LastRunSucceeded'

C8_WaitForBounded == []C8_WaitForState /\ [][C8_WaitForStep]_vars

\* waitFor(N) with N > 1 has raised the timed-out error after N failed runs.
C8_Witness ==
  /\ cmdPc = "idle" /\ cmdResult.op = "waitFor" /\ cmdResult.raised
  /\ ~command.noRun
  /\ retries > 1 /\ RunsInWaitFor = retries

\* C9: in non-simulate mode a run returns normally if and only if the
\* process was spawned and exited with code 0; otherwise it raises
\* CommandError.
C9_RunReturnsIffExitZero ==
  (cmdResult.op = "run" /\ ~command.noRun) =>
     (~cmdResult.raised <=> LastRunSucceeded)

\* A run that could not be spawned has raised CommandError.
C9_Witness ==
  /\ cmdResult.op = "run" /\ ~command.noRun
  /\ ~lastOutcome.spawned /\ cmdResult.raised

\* C10: once exitCode is set (after a run attempt or mock()), exitStatus
\* reports success exactly when exitCode is 0 and a failure exactly when
\* exitCode is not 0.
C10_ExitStatusConsistent ==
  command.exitCode # None =>
     /\ command.exitStatus.kind = "succeeded" <=> command.exitCode = Some(0)
     /\ command.exitStatus.kind \in {"signal", "exit status", "failed"}
          <=> command.exitCode # Some(0)

\* C25: when a spawned command fails, the CommandError raised by the run
\* carries the first line of its standard error if that line is not empty,
\* else the status text: "exit status N" for an exit code N > 0, "signal S"
\* for an exit code -S < 0.
C25_FailureMessage ==
  (cmdResult.op = "run" /\ cmdResult.raised /\ lastOutcome.spawned) =>
     cmdResult.msg =
       IF lastOutcome.errLine THEN Msg("stderr", 0)
       ELSE IF lastOutcome.rc > 0 THEN Msg("exit status", lastOutcome.rc)
       ELSE Msg("signal", 0 - lastOutcome.rc)

\* A command killed by a signal, with nothing on standard error.
C25_Witness ==
  /\ cmdResult.op = "run" /\ cmdResult.raised
  /\ lastOutcome.spawned /\ ~lastOutcome.errLine /\ lastOutcome.rc < 0
  /\ cmdResult.msg.kind = "signal"

\* C26: runOutput() never raises and returns a string in every mode: the
\* captured standard output when the command succeeded, the empty string
\* when it failed.
C26_RunOutputGivesText ==
  cmdResult.op = "runOutput" =>
    /\ ~cmdResult.raised
    /\ cmdResult.msg.kind = "text"
    /\ (~command.noRun /\ ~LastRunSucceeded) => cmdResult.msg.n = 0
    /\ (~command.noRun /\ LastRunSucceeded) =>
         cmdResult.msg.n = command.stdout[1]

\* C11: a Command created while simulate mode is on has noRun set, and a
\* Command with noRun set never spawns a process and never raises: run,
\* waitFor, runOutput and noThrowCall return normally, waitFor without a
\* single attempt.
C11_SimulateState ==
  command.noRun =>
    /\ lastOutcome = NoOutcome
    /\ ~cmdResult.raised
    /\ cmdPc = "idle"
C11_SimulateNeverRuns ==
  /\ []C11_SimulateState
  /\ [][(defaultNoRun /\ cmdResult'.op = "init") => command'.noRun]_vars

\* Simulate mode was switched on, a Command was created and run, and its
\* waitFor has returned.
C11_Witness ==
  /\ defaultNoRun /\ command.noRun
  /\ command.numRun >= 2
  /\ cmdResult.op = "waitFor" /\ ~cmdResult.raised

\* ------------------------------------------------------------------------
\* Claims about Configuration
\* ------------------------------------------------------------------------

\* C1: two processes running write operations are serialized: their
\* windows on the Configuration never overlap, a process in its window holds
\* the lock exclusively, the file never holds more than one document, and
\* while a process has the Configuration open the file is as that process
\* last read or wrote it (no writer works from a stale copy, so no update
\* is lost).
C1_WritesSerialized ==
  /\ \A p \in Procs, q \in Procs : p # q => ~(Window(p) /\ Window(q))
  /\ \A p \in Procs :
       Window(p) =>
         /\ \E f \in Fds : ofd[p][f] = "ex"
         /\ \A q \in Procs \ {p}, f \in Fds : ofd[q][f] \notin {"ex", "sh"}
  /\ Len(confFile.docs) <= 1
  /\ \A p \in Procs :
       confPc[p] = "open" => FileDocs(confFile) = FileDocs(seenFile[p])
  /\ \A p \in Procs :
       (confPc[p] = "open" /\ ~config[p].dirty) =>
         /\ FileDocs(confFile) \in {<<>>, <<PersistDoc(config[p])>>}
         /\ FileDocs(confFile) = <<>> => Empty(config[p])

\* A process has written its update over the update of an earlier
\* operation and still holds the lock; the other is retrying in lock().
C1_Witness ==
  \E p \in Procs, q \in Procs :
    /\ p # q
    /\ pc[p] = "entering" /\ count[p] > 0
    /\ confPc[q] = "open" /\ confResult[q] = "written"
    /\ confFile.docs # <<>> /\ bakFile.docs # <<>>

\* C5: a file written by persist() loads, and the loaded Configuration
\* has the same service names and, for every key of getKeys() of every
\* service, the same string serialization as the file holds.
C5_RoundTrip ==
  \A p \in Procs :
    /\ confPc[p] # "failed"
    /\ (confPc[p] = "open" /\ confResult[p] = "ok" /\ seenFile[p].docs # <<>>)
         => PersistDoc(config[p]) = seenFile[p].docs[1]

\* The round trip of the services whose texts hold neither < nor &.
PlainInputs ==
  /\ \A a \in DOMAIN inputs.vdo : XmlReadable(inputs.vdo[a].s)
  /\ \A a \in DOMAIN inputs.albserver : XmlReadable(inputs.albserver[a].s)
RoundTripOfPlainTexts == PlainInputs => C5_RoundTrip

\* C6: after BadConfigVersionError the Configuration holds no partial
\* in-memory state: no service records, and the schema version it had before
\* the load (the "1.0" of the constructor).
C6_NoPartialState ==
  \A p \in Procs :
    confResult[p] = "BadConfigVersionError" =>
      /\ Empty(config[p])
      /\ config[p].schemaVersion =
           ConfigurationInit(config[p].readonly, config[p].mustExist,
                             config[p].deleteEmpty).schemaVersion

\* The part of C6 the code does keep: a file of an unsupported version makes
\* __enter__ fail with BadConfigVersionError, and services are only ever
\* loaded from a document of a supported version.
VersionValidatedBeforeLoad ==
  [][\A p \in Procs :
       (confPc[p] = "init" /\ confPc'[p] # "init") =>
         /\ (confFile.exists /\ confFile.docs # <<>> /\
             confFile.docs[1].version \notin supportedSchemaVersions)
              => (confResult'[p] = "BadConfigVersionError" /\ confPc'[p] = "failed")
         /\ ~Empty(config'[p]) =>
              confFile.docs[1].version \in supportedSchemaVersions]_vars

\* C7: a session that has made no add or remove leaves the file as it was
\* when the Configuration was constructed, in existence and in content.
C7_FileUntouched ==
  \A p \in Procs :
    (confPc[p] \in {"open", "raising", "closed"} /\ ~mutated[p]) =>
      confFile = startFile[p]


\* C23: in simulate mode a write session on the Configuration (opened
\* writable, services added or removed, persist(), exit) leaves the file
\* system as it was when the Configuration was constructed: the file is
\* neither created, rewritten nor deleted, and no .bak file is made.
C23_SimulatedSessionWritesNothing ==
  \A p \in Procs :
    (/\ defaultNoRun
     /\ ~config[p].readonly
     /\ mutated[p] /\ ~config[p].dirty
     /\ confPc[p] = "closed" /\ confResult[p] = "exited")
      => confFile = startFile[p] /\ bakFile = NoFile


\* C24: whenever persist() truncates the configuration file to rewrite it,
\* the .bak file exists by then and holds the content the file had before
\* the truncation.
C24_BackupBeforeRewrite ==
  [][\A p \in Procs :
       (confPc[p] = "open" /\ confPc'[p] = "truncated")
         => bakFile'.exists /\ bakFile' = confFile]_vars


\* C35: persist() of a Configuration that is read-only or has not been
\* modified returns silently: it raises nothing and leaves the file and its
\* backup as they are, however the Configuration was opened, a read-only
\* one whose file does not exist included.
C35_PersistSilent ==
  [][\A p \in Procs, cpOk \in BOOLEAN :
       (Persist(p, cpOk) /\ (config[p].readonly \/ ~config[p].dirty))
         => /\ confPc'[p] = "open" /\ confResult'[p] = "ok"
            /\ confFile' = confFile /\ bakFile' = bakFile]_vars


Other(kind) == IF kind = "vdo" THEN "albservers" ELSE "vdos"
AddOutcome(p, kind, name, replace) ==
  IF ~replace /\ name \in DOMAIN config[p][Store(kind)]
    THEN /\ confResult'[p] = "False"
         /\ config'[p] = config[p]
    ELSE /\ confResult'[p] = "True"
         /\ name \in DOMAIN config'[p][Store(kind)]
         /\ config'[p][Store(kind)][name] = Input(kind)
         /\ config'[p][Other(kind)] = config[p][Other(kind)]

ExitDeletes(p) ==
  config[p].deleteEmpty /\ Empty(config[p]) /\ confPc[p] # "raising"
ExceptionLeaves(p) ==
  confPc[p] = "raising"
    => confFile' = confFile /\ confResult'[p] = confResult[p]

SuccessfulChange(p) ==
  /\ \/ \E n \in VdoNames, replace \in BOOLEAN : AddVdo(p, n, replace)
     \/ \E n \in AlbNames, replace \in BOOLEAN : AddAlbserver(p, n, replace)
     \/ \E n \in VdoNames : RemoveVdo(p, n)
     \/ \E n \in AlbNames : RemoveAlbserver(p, n)
  /\ confPc'[p] = "open" /\ confResult'[p] \in {"True", "ok"}
LoadedOrPersisted(p) ==
  \/ /\ \E ro \in BOOLEAN, me \in BOOLEAN, de \in BOOLEAN :
          ConfNew(p, ro, me, de)
     /\ confPc'[p] = "init"
  \/ ConfEnter(p) /\ confPc'[p] = "open"
  \/ PersistWrite(p)
  \/ (\E cpOk \in BOOLEAN : Persist(p, cpOk)) /\ confResult'[p] = "printed"

\* C40: the dirty flag is True exactly when the mappings were changed by a
\* successful add or remove since the last load or persist: a successful
\* add or remove sets it, a load and a completed persist clear it, and no
\* other step (a refused add, a failed remove, a failed persist, the exit)
\* changes it.
C40_DirtyTracksChanges ==
  [][\A p \in Procs :
       /\ SuccessfulChange(p) => config'[p].dirty
       /\ LoadedOrPersisted(p) => ~config'[p].dirty
       /\ (~SuccessfulChange(p) /\ ~LoadedOrPersisted(p))
            => config'[p].dirty = config[p].dirty]_vars

\* A remove has emptied a store that was written before: dirty again.
C40_Witness ==
  \E p \in Procs :
    /\ confPc[p] = "open" /\ confResult[p] = "ok"
    /\ ~config[p].readonly /\ config[p].dirty
    /\ Empty(config[p]) /\ seenFile[p].docs # <<>>


\* ------------------------------------------------------------------------
\* Claims about the services
\* ------------------------------------------------------------------------
SomeCallFailed == \E i \in 1 .. Len(issued) : ~issued[i].ok
Issued(c) == \E i \in 1 .. Len(issued) : issued[i].cmd = c
Failed(c) == \E i \in 1 .. Len(issued) : issued[i].cmd = c /\ ~issued[i].ok

\* C12: no CommandError leaves a lifecycle operation (create, remove, have,
\* start, stop, running, growPhysical) of the Target, Index or kernel module
\* service: whichever of the commands it calls fail, the operation ends by
\* returning a value (or by an exception that is not a CommandError).
C12_NoCommandErrorEscapes == ret.raised # "CommandError"

C12_Witness ==
  /\ ret.svc = "alb" /\ ret.op = "create"
  /\ Failed("albcreate") /\ Failed("lvremove")
  /\ ret.raised = "none" /\ ret.val = ERROR


\* The service the last operation was called on: whether its resource (the
\* device-mapper target, the server process) is there, and whether it is
\* enabled.
ResourceRunning ==
  IF ret.svc = "alb" THEN albWorld.server ELSE vdoWorld.dm # "absent"
ServiceEnabled == IF ret.svc = "alb" THEN alb.enabled ELSE vdo.enabled
StartAgain ==
  /\ ~defaultNoRun
  /\ ret.op = "start"
  /\ ResourceRunning
  /\ IF ret.svc = "alb" THEN AlbStart ELSE VdoStart

CreateReturned == ret.svc = "vdo" /\ ret.op = "create" /\ ret.raised = "none"
RemovalAttempted ==
  \E i \in 1 .. Len(issued) - 1 :
    issued[i].cmd = "vdoformat" /\ issued[i + 1].cmd = "lvchange -an"

RoundedDown(size, blockSize) == (size \div blockSize) * blockSize

\* C15, second part: the size LogicalVolume.create() or extend() returns is
\* the size queried from the volume minus (that size mod the block size).
C15_ReturnedSize ==
  (ret.svc = "vdo" /\ ret.sizes # <<>>) =>
    /\ ret.sizes[2] = ret.sizes[1] - (ret.sizes[1] % vdoPhysicalBlockSize)
    /\ ret.sizes[2] % vdoPhysicalBlockSize = 0

\* C15, first part: a Target create() called with logicalSize unset that
\* returns SUCCESS leaves logicalSize equal to the size the volume was given
\* (the size queried after lvcreate; in simulate mode the size asked for),
\* rounded down to a multiple of the physical block size.
C15_LogicalSizeDefault ==
  (/\ vdo.logicalSize = 0
   /\ ret'.op = "create" /\ ret'.raised = "none" /\ ret'.val = SUCCESS
   /\ VdoCreate)
    => /\ vdo'.logicalSize = RoundedDown(ret'.sizes[1], vdoPhysicalBlockSize)
       /\ vdo'.physicalSize = vdo'.logicalSize
       /\ ~defaultNoRun =>
            vdoWorld'.lvSize \in {ret'.sizes[1], vdo'.logicalSize}
       /\ defaultNoRun => ret'.sizes[1] = vdo.physicalSize

ReducedAfterMessage ==
  \E i \in 1 .. Len(issued) : \E j \in i + 1 .. Len(issued) :
    issued[i].cmd = "dmsetup message" /\ issued[j].cmd = "lvreduce"

\* C16: when growPhysical() has run and its reconfigure step (dmsetup
\* message) failed, then on return the target is resumed, not suspended, and
\* a reduce of the logical volume has been called after the failure.
C16_ResumedAndReduced ==
  (ret.svc = "vdo" /\ ret.op = "growPhysical" /\ Failed("dmsetup message"))
    => /\ vdoWorld.dm = "active"
       /\ ReducedAfterMessage


\* C17: when Index create() is called where neither the volume nor the
\* index directory exists, and it fails at one step (volume creation, mkfs,
\* mkdir, mount or the index-creation binary) while every command of its
\* clean-up succeeds, then on return the volume is removed and the
\* directory does not exist.
C17_NothingLeft ==
  [][(/\ ~albWorld.lv /\ ~albWorld.dir
      /\ ret'.op = "create" /\ ret'.val = ERROR
      /\ Cardinality({i \in 1 .. Len(issued') : ~issued'[i].ok}) = 1
      /\ AlbCreate)
       => (~albWorld'.lv /\ ~albWorld'.dir)]_vars


RemoveAfterCreate ==
  /\ ~defaultNoRun
  /\ ret.op = "create" /\ ret.raised = "none" /\ ret.val = SUCCESS
  /\ IF ret.svc = "alb" THEN AlbRemove ELSE VdoRemove
TornDown(svc, vw, aw) ==
  IF svc = "alb" THEN ~aw.lv /\ ~aw.dir /\ ~aw.mounted ELSE ~vw.lv

\* C18: remove() of a Target or Index service called after its create()
\* succeeded returns SUCCESS only if the resources are torn down (the
\* volume absent and, for the Index, the directory absent and nothing
\* mounted), and returns ERROR whenever one of its teardown commands failed.
C18_RemoveReportsFailure ==
  [][RemoveAfterCreate
       => /\ ret'.val = SUCCESS => TornDown(ret'.svc, vdoWorld', albWorld')
          /\ (\E i \in 1 .. Len(issued') : ~issued'[i].ok) => ret'.val = ERROR]_vars


UnmountBeforeTeardown ==
  \E i \in 1 .. Len(issued) : \E j \in i + 1 .. Len(issued) :
    issued[i].cmd = "umount -f" /\ issued[j].cmd = "dmsetup remove"

\* What C19 says of one stop(force), from the system before it.
StopAsSpecified(force) ==
  /\ vdoWorld.dm = "absent" =>
       /\ ret'.val = ALREADY
       /\ vdoWorld' = vdoWorld
       /\ ~Issued("umount -f")' /\ ~Issued("dmsetup remove")'
  /\ (vdoWorld.dm # "absent" /\ vdoWorld.mounted /\ ~force) =>
       /\ ret'.val = ERROR
       /\ vdoWorld' = vdoWorld
       /\ ~Issued("umount -f")' /\ ~Issued("dmsetup remove")'
  /\ (vdoWorld.dm # "absent" /\ vdoWorld.mounted /\ force) =>
       UnmountBeforeTeardown'

StartDisabled ==
  /\ ret'.op = "start"
  /\ \/ ~vdo.enabled /\ VdoStart
     \/ ~alb.enabled /\ AlbStart

\* C20: start() of a Target or Index service whose enabled attribute is
\* False returns SUCCESS and changes nothing: it calls no command at all
\* (no module load, volume activation, mount, server launch or device-mapper
\* create), whether or not the service is running.
C20_DisabledStartIsNoOp ==
  [][StartDisabled
       => /\ ret'.raised = "none" /\ ret'.val = SUCCESS
          /\ issued' = <<>>
          /\ vdoWorld' = vdoWorld /\ albWorld' = albWorld
          /\ vdo' = vdo /\ alb' = alb]_vars

C20_Witness ==
  /\ ret.svc = "alb" /\ ret.op = "start" /\ ret.val = SUCCESS
  /\ issued = <<>>
  /\ ~alb.enabled /\ albWorld.server /\ ~defaultNoRun


\* An enabled service is started or stopped (stop() does not look at
\* enabled).
StartOrStop ==
  /\ ret'.op \in {"start", "stop"}
  /\ \/ vdo.enabled /\ (VdoStart \/ VdoStop)
     \/ alb.enabled /\ (AlbStart \/ AlbStop)

\* The last command that each sequence calls in simulate mode has been
\* called (the umount of the Index stop() is a waitFor, which calls
\* nothing there).
SequenceAttempted ==
  CASE ret.svc = "vdo" /\ ret.op = "start" -> Issued("modprobe") /\ Issued("dmsetup create")
    [] ret.svc = "vdo" /\ ret.op = "stop" -> Issued("dmsetup remove")
    [] ret.svc = "alb" /\ ret.op = "start" -> Issued("albserver")
    [] ret.svc = "alb" /\ ret.op = "stop" -> Issued("kill")
    [] OTHER -> FALSE

\* C21: in simulate mode, start() and stop() of an enabled Target or Index
\* service never return ALREADY: whatever the system looks like, the calls
\* that follow the running test are made, up to the last command of the
\* sequence (unless start() is ended by an exception that is no
\* CommandError, the unresolvable host of the network spec).
C21_SimulateNeverAlready ==
  [][(defaultNoRun /\ StartOrStop)
       => /\ ret'.val # ALREADY
          /\ ret'.raised = "none" => SequenceAttempted']_vars

C21_Witness ==
  /\ defaultNoRun
  /\ ret.svc = "alb" /\ ret.op = "stop" /\ ret.val = SUCCESS
  /\ alb.enabled /\ ~albWorld.server
  /\ SequenceAttempted


\* ------------------------------------------------------------------------
\* Claims about the LogicalVolume
\* ------------------------------------------------------------------------
SlashFree(s) == CountSep(s) = 0

\* fullpath is /dev/<group>/<volume> for these two names.
Shaped(fullpath, group, name) ==
  /\ group # <<>> /\ SlashFree(group)
  /\ name # <<>> /\ SlashFree(name)
  /\ fullpath = DevPrefix \o group \o <<Slash>> \o name

WellShaped(fullpath) ==
  \E g \in Names, v \in Names : Shaped(fullpath, g, v)

\* C22: LogicalVolume(fullpath) succeeds if and only if fullpath is
\* /dev/<group>/<volume> with a non-empty group and a non-empty volume name
\* without a slash; every other string raises ArgumentError; on success the
\* derived group and volume names are those two components.
C22_ConstructibleIffShaped ==
  volume # NoVolume =>
    /\ volume.made <=> WellShaped(volumePath)
    /\ ~volume.made => volume.raised = "ArgumentError"
    /\ volume.made => Shaped(volumePath, volume.volumeGroup, volume.name)


GrowReturned == ret.svc = "vdo" /\ ret.op = "growPhysical"

\* A reduce of the volume has been called after the command c.
ReducedAfter(c) ==
  \E i \in 1 .. Len(issued) : \E j \in i + 1 .. Len(issued) :
    issued[i].cmd = c /\ issued[j].cmd = "lvreduce"

\* C27: in growPhysical(), if the extend of the volume (lvextend) fails, no
\* other command is called and 1 is returned; if the extend succeeds and the
\* suspend of the target fails, the volume is reduced back to the physical
\* size the service had recorded (the reduce is called with that size, and
\* where its lvreduce works the volume has that size), neither the
\* reconfigure message nor a resume is called, and 1 is returned.
C27_GrowFailsEarly ==
  GrowReturned =>
    /\ Failed("lvextend") =>
         /\ ret.raised = "none" /\ ret.val = 1
         /\ Len(issued) = 1
    /\ Failed("dmsetup suspend") =>
         /\ ret.raised = "none" /\ ret.val = 1
         /\ ReducedAfter("dmsetup suspend")
         /\ vdo.lv = vdo.physicalSize
         /\ ~Failed("lvreduce") => vdoWorld.lvSize = vdo.physicalSize
         /\ ~Issued("dmsetup message") /\ ~Issued("dmsetup resume")

C27_Witness ==
  /\ GrowReturned /\ ret.val = 1
  /\ ~Failed("lvextend") /\ Failed("dmsetup suspend")
  /\ ReducedAfter("dmsetup suspend") /\ ~Failed("lvreduce")
  /\ vdoWorld.lvSize = vdo.physicalSize /\ vdo.physicalSize > 0


Calls(c) == Cardinality({i \in 1 .. Len(issued) : issued[i].cmd = c})
CalledAfter(c, d) ==
  \E i \in 1 .. Len(issued) : \E j \in i + 1 .. Len(issued) :
    issued[i].cmd = c /\ issued[j].cmd = d

\* C28: in growPhysical(), a suspend of the target that succeeded is
\* followed before the return by exactly one resume, after the reconfigure
\* message, whether the message succeeded or failed; a failed resume makes
\* the call return 1 whatever the message did; and 0 is returned only when
\* extend, suspend, message and resume were all called and none failed.
C28_ResumeAfterSuspend ==
  GrowReturned =>
    /\ (Issued("dmsetup suspend") /\ ~Failed("dmsetup suspend")) =>
         /\ Calls("dmsetup resume") = 1
         /\ CalledAfter("dmsetup suspend", "dmsetup message")
         /\ CalledAfter("dmsetup message", "dmsetup resume")
    /\ Failed("dmsetup resume") => ret.raised = "none" /\ ret.val = 1
    /\ (ret.raised = "none" /\ ret.val = 0) =>
         \A c \in {"lvextend", "dmsetup suspend", "dmsetup message",
                   "dmsetup resume"} : Issued(c) /\ ~Failed(c)

\* The message failed, the resume was still called, and failed too.
C28_Witness ==
  /\ GrowReturned /\ ret.val = 1
  /\ ~Failed("dmsetup suspend")
  /\ Failed("dmsetup message")
  /\ Calls("dmsetup resume") = 1 /\ Failed("dmsetup resume")


StartReturned == ret.svc = "vdo" /\ ret.op = "start"
StatisticsRebuild == "vdoformat --rebuild-statistics"
ForcedRebuild == "vdoformat --force-rebuild"

\* The commands start() has called before dmsetup create, and what a
\* failure of the module load or of a pre-step leads to.
CreateComesLast ==
  StartReturned =>
    /\ Issued("dmsetup create") =>
         /\ CalledAfter("modprobe", "dmsetup create")
         /\ ~Failed("modprobe")
         /\ \A c \in {StatisticsRebuild, ForcedRebuild} :
              Issued(c) => CalledAfter(c, "dmsetup create") /\ ~Failed(c)
    /\ Failed("modprobe") =>
         /\ ret.raised = "none" /\ ret.val = ERROR
         /\ ~Issued("lvchange -ay") /\ ~Issued("dmsetup create")
    /\ (Failed(StatisticsRebuild) \/ Failed(ForcedRebuild)) =>
         /\ ret.raised = "none" /\ ret.val = ERROR
         /\ ~Issued("dmsetup create")
    /\ ~(Issued(StatisticsRebuild) /\ Issued(ForcedRebuild))

\* start() asked for both rebuilds, on an enabled service that gets as far
\* as the pre-step.
BothRebuildsAsked ==
  /\ vdo.enabled
  /\ ret'.op = "start" /\ ret'.raised = "none"
  /\ \E o \in Failing(StartCommands) :
       VdoDone(VdoStartEnd(TRUE, TRUE, TRUE, o))

\* C29: in Target start(), dmsetup create is called only after the module
\* load (modprobe) succeeded and after the pre-step asked for succeeded: a
\* failed module load returns ERROR before the volume is activated, a failed
\* forced rebuild or statistics rebuild returns ERROR with no dmsetup create,
\* and with both rebuildStatistics and forceRebuild asked only the
\* statistics rebuild is run.
C29_CreateAfterPreSteps ==
  /\ []CreateComesLast
  /\ [][BothRebuildsAsked
          => /\ ~Issued(ForcedRebuild)'
             /\ Issued("lvchange -ay")' => Issued(StatisticsRebuild)']_vars

C29_Witness ==
  /\ StartReturned /\ ret.val = ERROR
  /\ ~Failed("modprobe") /\ Issued("lvchange -ay")
  /\ Failed(ForcedRebuild)
  /\ ~Issued("dmsetup create") /\ vdoWorld.dm = "absent"


\* What start() with compression configured leaves: ERROR and a live target
\* that no one tears down where only the enabling of compression failed; and
\* SUCCESS only with the target made and compression enabled (the extension
\* point returned without CommandError).
CompressedStartOutcome ==
  /\ (Issued("dmsetup create") /\ ~Failed("dmsetup create")
        /\ Failed("compression on")) =>
       /\ ret.raised = "none" /\ ret.val = ERROR
       /\ vdoWorld.dm = "active"
       /\ ~Issued("dmsetup remove")
  /\ (ret.raised = "none" /\ ret.val = SUCCESS) =>
       /\ vdoWorld.dm = "active"
       /\ Issued("dmsetup create") /\ ~Failed("dmsetup create")
       /\ Issued("compression on") /\ ~Failed("compression on")

CompressedStart ==
  /\ vdo.enableCompression
  /\ ret'.op = "start"
  /\ VdoStart

\* The claim as stated, for every start() of a Target with compression
\* configured.
C30_SuccessMeansCompressed ==
  [][CompressedStart => CompressedStartOutcome']_vars

\* C30: in non-simulate mode, in start() of an enabled Target service with
\* compression configured, if dmsetup create succeeds and enabling
\* compression fails, start() returns ERROR while the target stays live (no
\* teardown is called); start() returns SUCCESS only if the target was
\* created and compression was enabled.
C30_EnabledSuccessMeansCompressed ==
  [][(~defaultNoRun /\ vdo.enabled /\ CompressedStart)
       => CompressedStartOutcome']_vars

C30_Witness ==
  /\ ~defaultNoRun
  /\ StartReturned /\ ret.val = ERROR
  /\ vdo.enableCompression
  /\ ~Failed("dmsetup create") /\ Failed("compression on")
  /\ vdoWorld.dm = "active"


IndexStartReturned == ret.svc = "alb" /\ ret.op = "start"

\* C31: in Index start(), a failed mount returns ERROR and the server is
\* not launched; a failed launch of the server returns ERROR, and the
\* unmount is called if and only if this call made the mount: a mount that
\* was there before the call stays.
C31_MountAndLaunchFailures ==
  IndexStartReturned =>
    /\ Failed("mount -t ext3") =>
         /\ ret.raised = "none" /\ ret.val = ERROR
         /\ ~Issued("albserver")
    /\ Failed("albserver") =>
         /\ ret.raised = "none" /\ ret.val = ERROR
         /\ Issued("umount -f") <=> Issued("mount -t ext3")
         /\ ~Issued("mount -t ext3") => albWorld.mounted

\* The launch failed after the mount this call made.
C31_Witness ==
  /\ IndexStartReturned /\ ret.val = ERROR
  /\ Issued("mount -t ext3") /\ ~Failed("mount -t ext3")
  /\ Failed("albserver")
  /\ Issued("umount -f") /\ ~Failed("umount -f")
  /\ ~albWorld.mounted

Launched == Issued("albserver") /\ ~Failed("albserver")
Pinged == \E i \in 1 .. Len(issued) : issued[i].cmd = "albping" /\ issued[i].ok
WithReadyCommand == ~Issued("albping") /\ (ret.val = SUCCESS <=> Launched)
PingBudgetKept == Calls("albping") <= WaitForRetries
SuccessIffReachable == ret.val = SUCCESS <=> (Launched /\ Pinged)

\* C32 as stated: in Index start(), with a ready command no ping is made and
\* the result is SUCCESS exactly when the launch of the server succeeded;
\* without one the server is pinged at most 20 times and the result is
\* SUCCESS exactly when the launch and some ping succeeded, ERROR otherwise.
C32_StartOutcome ==
  [][\A o \in Failing(ServerCommands) :
       /\ AlbDone(AlbStartEnd(TRUE, 1, o)) => WithReadyCommand'
       /\ \A answer \in PingAnswers :
            AlbDone(AlbStartEnd(FALSE, answer, o))
              => /\ PingBudgetKept' /\ SuccessIffReachable'
                 /\ ret'.val # SUCCESS => ret'.val = ERROR]_vars

\* C32 as the code has it: the same for an enabled Index service, the
\* outcome without a ready command being tied to the pings in non-simulate
\* mode only (simulate mode pings nothing), and a server that was running
\* before the call giving ALREADY instead of ERROR.
C32_EnabledStartOutcome ==
  [][\A o \in Failing(ServerCommands) :
       /\ (alb.enabled /\ AlbDone(AlbStartEnd(TRUE, 1, o)))
            => WithReadyCommand'
       /\ \A answer \in PingAnswers :
            (alb.enabled /\ AlbDone(AlbStartEnd(FALSE, answer, o)))
              => /\ PingBudgetKept'
                 /\ ~defaultNoRun =>
                      /\ SuccessIffReachable'
                      /\ ret'.val # SUCCESS =>
                           \/ ret'.val = ERROR
                           \/ ret'.val = ALREADY /\ albWorld.server]_vars

\* The server answered the last ping of the budget.
C32_Witness ==
  /\ IndexStartReturned /\ ret.val = SUCCESS /\ ~defaultNoRun
  /\ Launched /\ Pinged /\ Calls("albping") = WaitForRetries

\* C33: when Index start() returns ERROR, the mount and the server process
\* that this call created are gone: whatever is mounted or running after
\* the call was mounted or running before it.
C33_ErrorMeansRolledBack ==
  [][(AlbStart /\ ret'.val = ERROR)
       => /\ albWorld'.mounted => albWorld.mounted
          /\ albWorld'.server => albWorld.server]_vars

AlivePolls ==
  Cardinality({i \in 1 .. Len(issued) :
                 issued[i].cmd = "kill -0" /\ issued[i].ok})
ForceAfterGraceful ==
  \A j \in 1 .. Len(issued) :
    issued[j].cmd = "kill -9"
      => \E i \in 1 .. j - 1 : issued[i].cmd = "kill"

\* C34: in non-simulate mode Index stop() returns ALREADY, calling nothing,
\* when no live tracked process exists; otherwise the graceful kill comes
\* first, the process is polled at most KillRetries (20) times, the
\* force-kill is sent only after the process was found alive at every one
\* of the 20 polls and never before the graceful kill, the unmount is
\* attempted last, and SUCCESS is returned whether or not it succeeded.
C34_StopEscalates ==
  [][(AlbStop /\ ~defaultNoRun)
       => IF ~albWorld.server
            THEN ret'.val = ALREADY /\ issued' = <<>>
            ELSE /\ ret'.raised = "none" /\ ret'.val = SUCCESS
                 /\ issued'[1].cmd = "kill"
                 /\ Calls("kill -0")' <= KillRetries
                 /\ Issued("kill -9")' => AlivePolls' = KillRetries
                 /\ ForceAfterGraceful'
                 /\ issued'[Len(issued')].cmd = "umount -f"]_vars

\* The process outlived every poll, was force-killed, and the unmount
\* failed.
C34_Witness ==
  /\ ~defaultNoRun /\ ret.svc = "alb" /\ ret.op = "stop"
  /\ ret.val = SUCCESS
  /\ Calls("kill -0") = KillRetries /\ Issued("kill -9")
  /\ Failed("umount -f")

\* C38: whenever growPhysical() returns 1, the recorded physicalSize is the
\* one it was before the call: physicalSize changes only in a call that
\* returns 0.
C38_SizeKeptOnFailure ==
  [][VdoGrowPhysical
       => /\ (ret'.raised = "none" /\ ret'.val = 1)
                => vdo'.physicalSize = vdo.physicalSize
          /\ vdo'.physicalSize # vdo.physicalSize
                => ret'.raised = "none" /\ ret'.val = 0]_vars

====
